---------------------------- MODULE Spec2Model ----------------------------
(***************************************************************************)
(* The real-time ingestion pipeline of the Binance analytics backend:      *)
(* TickBuffer and BinanceIngestService (services/ingest.py), the           *)
(* TickPersistenceWorker (services/persistence.py), the LiveMetricsStream  *)
(* (services/live.py) and the wiring of app/main.py.                       *)
(*                                                                         *)
(* Everything runs on one asyncio event loop, so an action is one run of a *)
(* task from the await it was suspended at to the next await that          *)
(* suspends.                                                               *)
(***************************************************************************)
EXTENDS Integers, Sequences, FiniteSets, TLC

\* ------------------------------------------------------------------ sizes
\* The program's sizes, scaled down to model-checkable ones.
\* settings.tick_buffer_size (3600 in core/config.py)
BufferSize == 2
\* TickPersistenceWorker(queue_maxsize=5000)
PersistMaxsize == 2
\* settings.db_batch_size (200 in core/config.py)
BatchSize == 3
\* the number of feed messages the exchange delivers in one behaviour
MaxMsgs == 4
\* the number of consumer tasks ever created in one behaviour
MaxTasks == 2
\* the number of worker tasks ever created in one behaviour
MaxWorkers == 1
\* the number of worker tasks ever created where the worker is restarted
MaxRestartWorkers == 2
\* the number of live tasks ever created where the live stream is restarted
MaxRestartLive == 2
\* the number of feed messages delivered while the live stream is restarted
MaxLiveRestartMsgs == 2
\* the number of feed messages delivered while the worker is restarted
MaxRestartMsgs == 3
\* the number of feed messages delivered while the persistence worker is watched
MaxPersistMsgs == 4
\* settings.db_flush_interval_seconds, in clock ticks of one second
FlushInterval == 2
\* the clock stops counting a batch's age here
AgeCap == 4

\* asyncio.Queue(maxsize=2_000) of LiveMetricsStream.start
LiveTickMaxsize == 2
\* asyncio.Queue(maxsize=200) of LiveMetricsStream.subscribe
LiveSubMaxsize == 2
\* AlertManager(history_limit=500)
HistoryLimit == 2
MaxAlerts == 1
\* the number of live-metrics tasks ever created in one behaviour
MaxLive == 1
\* the number of payload queues ever handed out by subscribe()
MaxSubs == 2
\* the number of feed messages delivered while the live stream is watched
MaxLiveMsgs == 3
MaxSymbolMsgs == 2

AllSymbols == {"btcusdt", "ethusdt"}
\* settings.default_symbols
DefaultSymbols == <<"btcusdt", "ethusdt">>

VARIABLES
    symbols,        \* BinanceIngestService.symbols
    running,        \* BinanceIngestService._running
    data,           \* TickBuffer.data: symbol -> deque(maxlen)
    queue,          \* BinanceIngestService.queue (the primary queue)
    subscribers,    \* BinanceIngestService._subscribers (0: the persistence queue)
    ctasks,         \* every consumer task created: id -> [sym, st, cancel]
    taskset,        \* BinanceIngestService._tasks
    istop,          \* ingest stop(): the tasks its gather() awaits, or "idle"
    sent,           \* feed messages delivered so far
    hist,           \* history: every tick ever appended to the buffer, per symbol
    drops,          \* history: the ticks _broadcast did not put on a full queue
    pqueue,         \* TickPersistenceWorker.queue
    pw_running,     \* TickPersistenceWorker._running
    pw_task,        \* TickPersistenceWorker._task (0: None)
    wtasks,         \* every worker task created: id -> [st, cancel, timer]
    batch,          \* TickPersistenceWorker._buffer
    inserts,        \* every call of insert_ticks: [ticks, ok, cause, by], in order
    batch_age,      \* history: seconds the oldest tick of the batch has waited in it
    pstop,          \* persistence stop(): its position
    live_running,   \* LiveMetricsStream._running
    live_task,      \* LiveMetricsStream._task (0: None)
    ltasks,         \* every live-metrics task created: id -> [st, cancel, q]
    tick_queues,    \* every queue start() built: id -> its items
    live_tick_queue,\* LiveMetricsStream._tick_queue, as an id (0: None)
    live_subscribers, \* LiveMetricsStream._subscribers, as ids of payload queues
    payload_queues, \* every queue subscribe() built: id -> its items
    latest_payload, \* LiveMetricsStream._latest_payload (<<>>: None)
    alerts,         \* AlertManager._alerts, in insertion order
    alert_history,  \* AlertManager._history, newest first
    lstop,          \* live stop(): its position
    lifespan,       \* the application's lifespan: where its shutdown stands
    uuids,          \* the number of alert ids uuid4() has handed out
    held,           \* the list a caller of TickBuffer.snapshot holds
    settings,       \* core/config.py settings: the sizes read from the environment
    starter,        \* the lifespan's start_services_async task: where it stands
    last            \* history: what the last step did, when it was a call of a
                    \* service, a feed message, the end of a backoff, a run
                    \* of the live task or the end of a stop(); else NoEvent

ingest_vars == <<symbols, running, data, queue, subscribers, ctasks, taskset, istop, sent, hist, drops>>
persist_vars_but_queue == <<pw_running, pw_task, wtasks, batch, inserts, batch_age, pstop>>
persist_vars == <<pqueue, pw_running, pw_task, wtasks, batch, inserts, batch_age, pstop>>
ingest_vars_but_subscribers == <<symbols, running, data, queue, ctasks, taskset, istop, sent, hist, drops>>
live_vars_but_queues == <<live_running, live_task, ltasks, live_tick_queue, live_subscribers, payload_queues, latest_payload, alerts, alert_history, lstop>>
live_vars == <<tick_queues, live_vars_but_queues>>
live_vars_but_alerts == <<tick_queues, live_running, live_task, ltasks, live_tick_queue, live_subscribers, payload_queues, latest_payload, lstop>>
app_vars_but_lifespan == <<uuids, held, settings, starter>>
app_vars == <<lifespan, app_vars_but_lifespan>>
vars == <<ingest_vars, persist_vars, live_vars, app_vars, last>>

\* ------------------------------------------------------------------ helpers
Last(s, n) == SubSeq(s, Len(s) - n + 1, Len(s))
Min(a, b) == IF a < b THEN a ELSE b
Range(s) == {s[i] : i \in DOMAIN s}
NoEvent == [op |-> "none"]

\* ------------------------------------------------------------------ TickBuffer
\* deque(maxlen).append: the oldest element leaves when the deque is full.
DequeAppend(d, x, maxlen) ==
    IF maxlen = 0 THEN d
    ELSE IF Len(d) >= maxlen THEN Append(Tail(d), x) ELSE Append(d, x)

\* TickBuffer.ensure_symbol
ensure_symbol(d, symbol) ==
    IF symbol \in DOMAIN d THEN d
    ELSE [s \in DOMAIN d \cup {symbol} |-> IF s = symbol THEN <<>> ELSE d[s]]

\* TickBuffer.configure
configure(d, syms) ==
    [s \in DOMAIN d \cup syms |-> IF s \in DOMAIN d THEN d[s] ELSE <<>>]

\* A buffer that appends without evicting.
buffer_append_unbounded(d, tick) ==
    LET e == ensure_symbol(d, tick.symbol)
    IN  [e EXCEPT ![tick.symbol] = Append(e[tick.symbol], tick)]

\* A buffer whose append only makes sure the symbol has a deque.
buffer_append_skips(d, tick) == ensure_symbol(d, tick.symbol)

\* TickBuffer.append
buffer_append(d, tick) ==
    LET e == ensure_symbol(d, tick.symbol)
    IN  [e EXCEPT ![tick.symbol] = DequeAppend(e[tick.symbol], tick, settings.tick_buffer_size)]

\* TickBuffer.snapshot
snapshot(d, symbol) == IF symbol \in DOMAIN d THEN d[symbol] ELSE <<>>

\* ------------------------------------------------------------------ feed messages
\* A feed message: whether json.loads accepts it, whether the payload is a JSON
\* object, and the fields _parse_message reads. An optional field is <<>> when
\* missing and <<v>> when present; p and q are [num |-> is it a number, v |-> value].
Absent == <<>>
Num(v) == <<[num |-> TRUE, v |-> v]>>
NotNum == <<[num |-> FALSE, v |-> 0]>>

Message(dec, obj, e, T, E, p, q) ==
    [decodable |-> dec, object |-> obj, e |-> e, T |-> T, E |-> E, p |-> p, q |-> q]

\* The messages the feed may deliver as its n-th one: event time n seconds, in
\* milliseconds, price 99 + n.
FeedMessages(n) ==
    LET ms == 1000 * n
        px == 99 + n
    IN  { Message(TRUE, TRUE, "trade", <<ms>>, <<ms>>, Num(px), Num(1)),
          Message(TRUE, TRUE, "trade", Absent, <<ms>>, Num(px), Num(1)),
          Message(FALSE, FALSE, "", Absent, Absent, Absent, Absent),
          Message(TRUE, FALSE, "", Absent, Absent, Absent, Absent),
          Message(TRUE, TRUE, "aggTrade", <<ms>>, <<ms>>, Num(px), Num(1)),
          Message(TRUE, TRUE, "trade", Absent, Absent, Num(px), Num(1)),
          Message(TRUE, TRUE, "trade", <<ms>>, <<ms>>, Absent, Num(1)),
          Message(TRUE, TRUE, "trade", <<ms>>, <<ms>>, NotNum, Num(1)),
          Message(TRUE, TRUE, "trade", <<ms>>, <<ms>>, Num(0 - px), Num(1)),
          Message(TRUE, TRUE, "trade", <<ms>>, <<ms>>, Num(px), Absent) }

\* float(payload.get(k)): TypeError on None, ValueError on a non-number.
FloatRaises(f) == f = Absent \/ ~f[1].num

\* payload.get("T") or payload.get("E"): a missing or zero T falls through to E.
TsMs(m) == IF m.T # Absent /\ m.T[1] # 0 THEN m.T ELSE m.E

\* BinanceIngestService._parse_message: a Tick, None, or an exception.
\* The Tick model validates price >= 0 and size >= 0 (schemas/tick.py).
parse_message(symbol, m) ==
    IF ~m.decodable THEN [kind |-> "none"]
    ELSE IF ~m.object THEN [kind |-> "raise"]
    ELSE IF m.e # "trade" THEN [kind |-> "none"]
    ELSE IF TsMs(m) = Absent THEN [kind |-> "none"]
    ELSE IF FloatRaises(m.p) \/ FloatRaises(m.q) THEN [kind |-> "raise"]
    ELSE IF m.p[1].v < 0 \/ m.q[1].v < 0 THEN [kind |-> "raise"]
    ELSE [kind |-> "tick",
          tick |-> [symbol |-> symbol, ts |-> TsMs(m)[1], price |-> m.p[1].v, size |-> m.q[1].v]]

\* ------------------------------------------------------------------ queues
\* asyncio.Queue.full(): a queue of maxsize <= 0 is never full.
full(q, maxsize) == maxsize > 0 /\ Len(q) >= maxsize

\* asyncio.Queue() as built by BinanceIngestService.__init__: no maxsize.
PrimaryMaxsize == 0

\* The subscriber queues whose put _broadcast skips because they are full:
\* subscriber 0 is the persistence queue, subscriber i > 0 is tick_queues[i].
FullSubscribers ==
    {q \in subscribers : IF q = 0 THEN full(pqueue, PersistMaxsize)
                                  ELSE full(tick_queues[q], LiveTickMaxsize)}

\* BinanceIngestService._broadcast on the live stream's tick queues.
broadcast_live(tick) ==
    [i \in DOMAIN tick_queues |->
        IF i \in subscribers /\ ~full(tick_queues[i], LiveTickMaxsize)
        THEN Append(tick_queues[i], tick) ELSE tick_queues[i]]

\* A broadcast that puts without looking at full().
broadcast_persist_always(tick) ==
    IF 0 \in subscribers THEN Append(pqueue, tick) ELSE pqueue

\* A broadcast that gives up on a full queue only when it holds one more.
broadcast_persist_late(tick) ==
    IF 0 \in subscribers /\ Len(pqueue) <= PersistMaxsize THEN Append(pqueue, tick) ELSE pqueue

\* BinanceIngestService._broadcast on the persistence queue (subscriber 0).
broadcast_persist(tick) ==
    IF 0 \in subscribers /\ ~full(pqueue, PersistMaxsize) THEN Append(pqueue, tick) ELSE pqueue

\* ------------------------------------------------------------------ initial state
\* The singletons of services/__init__.py as built, and lifespan up to the
\* registration of the persistence queue (main.py line 23).
InitComponents(syms) ==
    /\ symbols = syms
    /\ running = FALSE
    /\ data = configure(<<>>, syms)
    /\ queue = <<>>
    /\ subscribers = {0}
    /\ ctasks = <<>>
    /\ taskset = {}
    /\ istop = [active |-> FALSE, tasks |-> {}]
    /\ sent = 0
    /\ hist = [s \in AllSymbols |-> <<>>]
    /\ drops = 0
    /\ pqueue = <<>>
    /\ pw_running = FALSE
    /\ pw_task = 0
    /\ wtasks = <<>>
    /\ batch = <<>>
    /\ inserts = <<>>
    /\ batch_age = 0
    /\ pstop = [st |-> "idle", task |-> 0, snap |-> {}]
    /\ live_running = FALSE
    /\ live_task = 0
    /\ ltasks = <<>>
    /\ tick_queues = <<>>
    /\ live_tick_queue = 0
    /\ live_subscribers = {}
    /\ payload_queues = <<>>
    /\ latest_payload = <<>>
    /\ alerts = <<>>
    /\ alert_history = <<>>
    /\ lstop = [st |-> "idle", task |-> 0]
    /\ lifespan = "serving"
    /\ uuids = 0
    /\ held = [ref |-> "none", symbol |-> "", items |-> <<>>]
    /\ starter = "pending"

\* The settings the model runs the services with.
ModelSettings == [tick_buffer_size |-> BufferSize, db_batch_size |-> BatchSize]

InitWith(syms) == InitComponents(syms) /\ settings = ModelSettings /\ last = NoEvent

\* settings.default_symbols as core/config.py sets it
Init == InitWith(Range(DefaultSymbols))

\* DEFAULT_SYMBOLS set to one symbol in the environment
InitOne == InitWith({"btcusdt"})

\* ------------------------------------------------------------------ ingest service
Finished(t) == t.st \in {"done", "cancelled", "failed"}

\* The symbols of a set in a fixed order (the order tasks are numbered in).
SymbolOrder == <<"btcusdt", "ethusdt">>
InOrder(syms) == SelectSeq(SymbolOrder, LAMBDA s : s \in syms)

\* A consumer task as created; slept and kept are history: the seconds it
\* has slept in its present backoff, and how many ticks of its symbol had
\* been appended when it last began to back off.
NewConsumer(symbol) == [sym |-> symbol, st |-> "created", cancel |-> FALSE, slept |-> 0, kept |-> 0]

\* BinanceIngestService.start: if self._running.is_set(): return
ingest_start_skips == running

\* BinanceIngestService.start
ingest_start ==
    /\ IF ingest_start_skips
       THEN /\ last' = [op |-> "start_skipped"]
            /\ UNCHANGED <<running, ctasks, taskset>>
       ELSE /\ Len(ctasks) + Cardinality(symbols) <= MaxTasks
            /\ running' = TRUE
            /\ LET new == InOrder(symbols)
               IN  /\ ctasks' = ctasks \o [i \in 1..Len(new) |-> NewConsumer(new[i])]
                   /\ taskset' = taskset \cup (Len(ctasks) + 1 .. Len(ctasks) + Len(new))
            /\ last' = [op |-> "started"]
    /\ UNCHANGED <<symbols, data, queue, subscribers, istop, sent, hist, drops, persist_vars, live_vars>>

IngestStart == ingest_start /\ UNCHANGED app_vars

\* The symbol names a caller may pass.
InputSymbols == {"btcusdt", "ethusdt", "BTCUSDT"}

\* str.lower on those names
lower(s) == IF s = "BTCUSDT" THEN "btcusdt" ELSE s

\* An add_symbol that starts a consumer for a symbol it already knows.
add_symbol_knows(sym) == FALSE

\* BinanceIngestService.add_symbol: if symbol in self.symbols: return
add_symbol_skips(sym) == sym \in symbols

\* BinanceIngestService.add_symbol
AddSymbol(s) ==
    LET sym == lower(s)
    IN  /\ IF add_symbol_skips(sym)
           THEN UNCHANGED <<symbols, data, ctasks, taskset>>
           ELSE /\ symbols' = symbols \cup {sym}
                /\ data' = ensure_symbol(data, sym)
                /\ IF running
                   THEN /\ Len(ctasks) < MaxTasks
                        /\ ctasks' = Append(ctasks, NewConsumer(sym))
                        /\ taskset' = taskset \cup {Len(ctasks) + 1}
                   ELSE UNCHANGED <<ctasks, taskset>>
        /\ last' = [op |-> "add_symbol", sym |-> sym]
        /\ UNCHANGED <<app_vars, running, queue, subscribers, istop, sent, hist, drops, persist_vars, live_vars>>

\* BinanceIngestService.update_symbols: the set is replaced and the buffer
\* gets a sequence for every symbol of it; no task is started or cancelled.
UpdateSymbols(S) ==
    /\ symbols' = {lower(x) : x \in S}
    /\ data' = configure(data, symbols')
    /\ last' = [op |-> "update_symbols"]
    /\ UNCHANGED <<app_vars, running, queue, subscribers, ctasks, taskset, istop, sent, hist, drops, persist_vars, live_vars>>

\* task.cancel() on every task of a set: a finished task ignores it.
CancelAll(tasks, ids) ==
    [i \in DOMAIN tasks |->
        IF i \in ids /\ ~Finished(tasks[i]) THEN [tasks[i] EXCEPT !.cancel = TRUE] ELSE tasks[i]]

\* A stop() that found its component not running and returned at once.
Skipped(who) == [op |-> "stop_skipped", who |-> who]

\* BinanceIngestService.stop: if not self._running.is_set(): return
ingest_stop_skips == ~running

\* BinanceIngestService.stop up to its await of gather(); with no task to wait
\* for the gather is done at once and stop runs to its end.
ingest_stop_begin ==
    IF ingest_stop_skips
    THEN /\ last' = Skipped("ingest")
         /\ UNCHANGED <<ingest_vars, persist_vars, live_vars>>
    ELSE /\ ~istop.active
         /\ running' = FALSE
         /\ ctasks' = CancelAll(ctasks, taskset)
         /\ IF \A i \in taskset : Finished(ctasks[i])
            THEN taskset' = {} /\ istop' = istop
            ELSE taskset' = taskset /\ istop' = [active |-> TRUE, tasks |-> taskset]
         /\ last' = NoEvent
         /\ UNCHANGED <<symbols, data, queue, subscribers, sent, hist, drops, persist_vars, live_vars>>

IngestStopBegin == ingest_stop_begin /\ UNCHANGED app_vars

\* BinanceIngestService.stop resumed by its gather(): self._tasks.clear().
ingest_stop_end ==
    /\ istop.active
    /\ \A i \in istop.tasks : Finished(ctasks[i])
    /\ taskset' = {}
    /\ istop' = [active |-> FALSE, tasks |-> {}]
    /\ last' = NoEvent
    /\ UNCHANGED <<symbols, running, data, queue, subscribers, ctasks, sent, hist, drops, persist_vars, live_vars>>

IngestStopEnd == ingest_stop_end /\ UNCHANGED app_vars

\* The top of _consume_symbol's loop: while self._running.is_set().
LoopTop == IF running THEN "connecting" ELSE "done"

\* A consumer task moved to state st; a finished task leaves self._tasks
\* (its done callback, self._tasks.discard).
MoveConsumer(t, st) ==
    /\ ctasks' = [ctasks EXCEPT ![t].st = st, ![t].slept = 0,
                                ![t].kept = IF st = "backoff" THEN Len(hist[ctasks[t].sym]) ELSE @]
    /\ taskset' = IF st \in {"done", "cancelled", "failed"} THEN taskset \ {t} ELSE taskset

Runnable(t, st) == t \in DOMAIN ctasks /\ ctasks[t].st = st /\ ~ctasks[t].cancel

\* The first step of a consumer task.
ConsumerBegin(t) ==
    /\ Runnable(t, "created")
    /\ MoveConsumer(t, LoopTop)
    /\ last' = NoEvent
    /\ UNCHANGED <<app_vars, symbols, running, data, queue, subscribers, istop, sent, hist, drops, persist_vars, live_vars>>

\* websockets.connect completes within the 10 s of wait_for.
ConnectOk(t) ==
    /\ Runnable(t, "connecting")
    /\ MoveConsumer(t, "streaming")
    /\ last' = NoEvent
    /\ UNCHANGED <<app_vars, symbols, running, data, queue, subscribers, istop, sent, hist, drops, persist_vars, live_vars>>

\* The connect raises or times out (except TimeoutError, except Exception):
\* the task sleeps reconnect_delay.
ConnectFail(t) ==
    /\ Runnable(t, "connecting")
    /\ MoveConsumer(t, "backoff")
    /\ last' = NoEvent
    /\ UNCHANGED <<app_vars, symbols, running, data, queue, subscribers, istop, sent, hist, drops, persist_vars, live_vars>>

\* BinanceIngestService.__init__: reconnect_delay: float = 5.0, in seconds
ReconnectDelay == 5

\* A consumer that sleeps three times as long.
reconnect_sleep_tripled == 3 * ReconnectDelay

\* asyncio.sleep(self.reconnect_delay)
reconnect_sleep == ReconnectDelay

\* A consumer that gives up after its backoff, as a retry ceiling would make it.
backoff_gives_up(t) ==
    /\ Runnable(t, "backoff")
    /\ MoveConsumer(t, "done")
    /\ last' = [op |-> "backoff_done", task |-> t, slept |-> ctasks[t].slept]
    /\ UNCHANGED <<app_vars, symbols, running, data, queue, subscribers, istop, sent, hist, drops, persist_vars, live_vars>>

\* asyncio.sleep(reconnect_delay) returns: back to the top of the loop.
BackoffDone(t) ==
    /\ Runnable(t, "backoff")
    /\ MoveConsumer(t, LoopTop)
    /\ last' = [op |-> "backoff_done", task |-> t, slept |-> ctasks[t].slept]
    /\ UNCHANGED <<app_vars, symbols, running, data, queue, subscribers, istop, sent, hist, drops, persist_vars, live_vars>>

\* The connection breaks while streaming (ConnectionClosedError out of the
\* async for): except Exception, sleep.
ConnectionLost(t) ==
    /\ Runnable(t, "streaming")
    /\ MoveConsumer(t, "backoff")
    /\ last' = NoEvent
    /\ UNCHANGED <<app_vars, symbols, running, data, queue, subscribers, istop, sent, hist, drops, persist_vars, live_vars>>

\* The feed closes the stream normally: the async for ends without an
\* exception and the loop goes round.
FeedClosed(t) ==
    /\ Runnable(t, "streaming")
    /\ MoveConsumer(t, LoopTop)
    /\ last' = NoEvent
    /\ UNCHANGED <<app_vars, symbols, running, data, queue, subscribers, istop, sent, hist, drops, persist_vars, live_vars>>

\* A malformed message: undecodable, not an object, not a trade event,
\* without a timestamp, or with a missing or invalid price or size.
Malformed(m) ==
    \/ ~m.decodable
    \/ ~m.object
    \/ m.e # "trade"
    \/ (m.T = Absent /\ m.E = Absent)
    \/ m.p = Absent \/ m.q = Absent
    \/ (m.p # Absent /\ (~m.p[1].num \/ m.p[1].v < 0))
    \/ (m.q # Absent /\ (~m.q[1].num \/ m.q[1].v < 0))

\* What a message step records of the state it found.
Before(sym) ==
    [pq |-> Len(pqueue), q |-> Len(queue), h |-> Len(hist[sym]), subs |-> subscribers,
     tq |-> [i \in DOMAIN tick_queues |-> Len(tick_queues[i])]]

MessageEvent(t, m, result) ==
    [op |-> "message", task |-> t, sym |-> ctasks[t].sym, malformed |-> Malformed(m),
     result |-> result, before |-> Before(ctasks[t].sym)]

\* One message of the async for (lines 117-125): parse, append, put, broadcast.
\* The put on the primary queue and _broadcast never suspend.
ConsumerMessage(t, m) ==
    /\ Runnable(t, "streaming")
    /\ sent' = sent + 1
    /\ LET sym == ctasks[t].sym
           r == parse_message(sym, m)
       IN  IF ~running
           THEN /\ MoveConsumer(t, "done")
                /\ last' = MessageEvent(t, m, "break")
                /\ UNCHANGED <<data, queue, hist, pqueue, tick_queues, drops>>
           ELSE IF r.kind = "none"
           THEN /\ last' = MessageEvent(t, m, "none")
                /\ UNCHANGED <<data, queue, hist, pqueue, tick_queues, drops, ctasks, taskset>>
           ELSE IF r.kind = "raise"
           THEN /\ MoveConsumer(t, "backoff")
                /\ last' = MessageEvent(t, m, "raise")
                /\ UNCHANGED <<data, queue, hist, pqueue, tick_queues, drops>>
           ELSE /\ ~full(queue, PrimaryMaxsize)
                /\ data' = buffer_append(data, r.tick)
                /\ hist' = [hist EXCEPT ![sym] = Append(@, r.tick)]
                /\ queue' = Append(queue, r.tick)
                /\ pqueue' = broadcast_persist(r.tick)
                /\ tick_queues' = broadcast_live(r.tick)
                /\ drops' = drops + Cardinality(FullSubscribers)
                /\ last' = [MessageEvent(t, m, "tick") EXCEPT !.result = "tick"] @@ [tick |-> r.tick]
                /\ UNCHANGED <<ctasks, taskset>>
    /\ UNCHANGED <<app_vars, symbols, running, subscribers, istop, persist_vars_but_queue, live_vars_but_queues>>

\* A cancelled consumer task runs: CancelledError at its await. In the try
\* block it is caught (break); in a task not yet started, or in the sleep of
\* an except block, it ends the task as cancelled.
ConsumerCancelled(t) ==
    /\ t \in DOMAIN ctasks
    /\ ctasks[t].cancel
    /\ ~Finished(ctasks[t])
    /\ MoveConsumer(t, IF ctasks[t].st \in {"connecting", "streaming"} THEN "done" ELSE "cancelled")
    /\ last' = NoEvent
    /\ UNCHANGED <<app_vars, symbols, running, data, queue, subscribers, istop, sent, hist, drops, persist_vars, live_vars>>

\* ------------------------------------------------------------------ persistence worker
\* The ticks table: the rows of every insert_ticks call that committed.
RECURSIVE Concat(_)
Concat(ss) == IF ss = <<>> THEN <<>> ELSE Head(ss) \o Concat(Tail(ss))
Stored == Concat([i \in DOMAIN inserts |-> IF inserts[i].ok THEN inserts[i].ticks ELSE <<>>])

NoFlush(b) == [batch |-> b, log |-> <<>>, raised |-> FALSE]

\* A flush that writes the batch and leaves it in the buffer.
flush_keeps_batch(b, ok, cause, by) ==
    IF b = <<>> THEN NoFlush(b)
    ELSE [batch |-> b, log |-> <<[ticks |-> b, ok |-> ok, cause |-> cause, by |-> by]>>,
          raised |-> ~ok]

\* TickPersistenceWorker._flush on batch b: nothing on an empty batch; else
\* the batch is cleared and then handed to insert_ticks, which commits (ok)
\* or raises.
flush(b, ok, cause, by) ==
    IF b = <<>> THEN NoFlush(b)
    ELSE [batch |-> <<>>, log |-> <<[ticks |-> b, ok |-> ok, cause |-> cause, by |-> by]>>,
          raised |-> ~ok]

NewWorker == [st |-> "created", cancel |-> FALSE, timer |-> FlushInterval]

\* TickPersistenceWorker.start, while fewer than limit tasks were created
persist_start_upto(limit) ==
    /\ ~pw_running
    /\ Len(wtasks) < limit
    /\ pw_running' = TRUE
    /\ wtasks' = Append(wtasks, NewWorker)
    /\ pw_task' = Len(wtasks) + 1
    /\ last' = NoEvent
    /\ UNCHANGED <<live_vars, ingest_vars, pqueue, batch, inserts, batch_age, pstop>>

persist_start == persist_start_upto(MaxWorkers)

PersistStart == persist_start /\ UNCHANGED app_vars

\* The age of the oldest tick of the batch after a step that leaves batch b.
AgeAfter(b) == IF b = <<>> \/ batch = <<>> THEN 0 ELSE batch_age

\* The rest of one round of _run's loop after its body: an exception of the
\* body's flush ends the task (the finally block finds the buffer cleared);
\* else the while test, and on leaving the loop the finally block's flush.
\* A round that goes on waits again, for a full flush interval.
WorkerLoop(w, body, ok, cancelled) ==
    LET goon == pw_running /\ ~cancelled
        fin == IF body.raised \/ goon THEN NoFlush(body.batch) ELSE flush(body.batch, ok, "final", w)
        st == IF body.raised \/ fin.raised THEN "failed" ELSE IF goon THEN "waiting" ELSE "done"
    IN  /\ batch' = fin.batch
        /\ batch_age' = AgeAfter(fin.batch)
        /\ inserts' = inserts \o body.log \o fin.log
        /\ wtasks' = [wtasks EXCEPT ![w] = [st |-> st, cancel |-> FALSE, timer |-> FlushInterval]]

Waiting(w) == w \in DOMAIN wtasks /\ wtasks[w].st = "waiting"

\* The first step of a worker task: into the loop, to its first wait_for.
WorkerBegin(w, ok) ==
    /\ w \in DOMAIN wtasks
    /\ wtasks[w].st = "created"
    /\ ~wtasks[w].cancel
    /\ WorkerLoop(w, NoFlush(batch), ok, FALSE)
    /\ last' = NoEvent
    /\ UNCHANGED <<app_vars, live_vars, ingest_vars, pqueue, pw_running, pw_task, pstop>>

\* A loop body that flushes only above batch_size.
get_body_late(w, ok) ==
    LET b == Append(batch, Head(pqueue))
    IN  IF Len(b) > settings.db_batch_size THEN flush(b, ok, "size", w) ELSE NoFlush(b)

\* A body that puts the tick at the front of the batch.
get_body_prepends(w, ok) ==
    LET b == <<Head(pqueue)>> \o batch
    IN  IF Len(b) >= settings.db_batch_size THEN flush(b, ok, "size", w) ELSE NoFlush(b)

\* The body of the loop on a tick from the queue: append, flush at batch_size.
get_body(w, ok) ==
    LET b == Append(batch, Head(pqueue))
    IN  IF Len(b) >= settings.db_batch_size THEN flush(b, ok, "size", w) ELSE NoFlush(b)

\* wait_for(queue.get()) returns a tick.
WorkerGet(w, ok) ==
    /\ Waiting(w)
    /\ ~wtasks[w].cancel
    /\ pqueue # <<>>
    /\ pqueue' = Tail(pqueue)
    /\ WorkerLoop(w, get_body(w, ok), ok, FALSE)
    /\ last' = NoEvent
    /\ UNCHANGED <<app_vars, live_vars, ingest_vars, pw_running, pw_task, pstop>>

\* The body of the loop on asyncio.TimeoutError: flush a non-empty batch.
timeout_body(w, ok) == flush(batch, ok, "idle", w)

\* wait_for raises TimeoutError: no tick came for flush_interval.
TimeoutHandler(w, ok) ==
    /\ Waiting(w)
    /\ ~wtasks[w].cancel
    /\ WorkerLoop(w, timeout_body(w, ok), ok, FALSE)
    /\ last' = NoEvent
    /\ UNCHANGED <<app_vars, live_vars, ingest_vars, pqueue, pw_running, pw_task, pstop>>

\* The timeout with time left out: it may come whenever the worker waits.
WorkerTimeout(w, ok) == TimeoutHandler(w, ok)

\* A cancelled worker task runs. Not yet started, it ends without running
\* its body. In wait_for, CancelledError leaves the loop and the finally
\* block flushes; but a wait_for whose queue.get() has already completed
\* returns the tick instead (asyncio before 3.12), and the round goes on as
\* if no cancellation had happened.
WorkerCancelled(w, take, ok) ==
    /\ w \in DOMAIN wtasks
    /\ wtasks[w].cancel
    /\ wtasks[w].st \in {"created", "waiting"}
    /\ IF wtasks[w].st = "created"
       THEN /\ wtasks' = [wtasks EXCEPT ![w].st = "cancelled"]
            /\ UNCHANGED <<pqueue, batch, batch_age, inserts>>
       ELSE IF take /\ pqueue # <<>>
       THEN /\ pqueue' = Tail(pqueue)
            /\ WorkerLoop(w, get_body(w, ok), ok, FALSE)
       ELSE /\ WorkerLoop(w, NoFlush(batch), ok, TRUE)
            /\ UNCHANGED pqueue
    /\ last' = NoEvent
    /\ UNCHANGED <<app_vars, live_vars, ingest_vars, pw_running, pw_task, pstop>>

\* The ticks waiting in the queue or the batch.
Pending == Range(pqueue) \cup Range(batch)

\* What stop() does once its await of the task is over: the task's own
\* exception propagates; else the forced flush.
StopTail(t, ok, snap) ==
    LET f == IF wtasks[t].st = "failed" THEN NoFlush(batch) ELSE flush(batch, ok, "stop", 0)
    IN  /\ batch' = f.batch
        /\ batch_age' = AgeAfter(f.batch)
        /\ inserts' = inserts \o f.log
        /\ pstop' = [st |-> "idle", task |-> 0, snap |-> {}]
        /\ last' = [op |-> "persist_stopped", task |-> t, snap |-> snap,
                    raised |-> wtasks[t].st = "failed" \/ f.raised]

WFinished(t) == wtasks[t].st \in {"done", "cancelled", "failed"}

\* A stop() that goes on whether the worker is running or not.
persist_stop_never_skips == FALSE

\* TickPersistenceWorker.stop: if not self._running: return
persist_stop_skips == ~pw_running

\* TickPersistenceWorker.stop up to its await of the task; a task that has
\* already ended does not suspend it.
persist_stop_begin(ok) ==
    IF persist_stop_skips
    THEN /\ last' = Skipped("persist")
         /\ UNCHANGED <<ingest_vars, persist_vars, live_vars>>
    ELSE /\ pstop.st = "idle"
         /\ pw_task \in DOMAIN wtasks
         /\ pw_running' = FALSE
         /\ IF WFinished(pw_task)
            THEN /\ StopTail(pw_task, ok, Pending)
                 /\ UNCHANGED wtasks
            ELSE /\ wtasks' = [wtasks EXCEPT ![pw_task].cancel = TRUE]
                 /\ pstop' = [st |-> "awaiting", task |-> pw_task, snap |-> Pending]
                 /\ last' = NoEvent
                 /\ UNCHANGED <<batch, batch_age, inserts>>
         /\ UNCHANGED <<live_vars, ingest_vars, pqueue, pw_task>>

PersistStopBegin(ok) == persist_stop_begin(ok) /\ UNCHANGED app_vars

\* stop() resumed by the end of the task it awaits.
persist_stop_end(ok) ==
    /\ pstop.st = "awaiting"
    /\ WFinished(pstop.task)
    /\ StopTail(pstop.task, ok, pstop.snap)
    /\ UNCHANGED <<live_vars, ingest_vars, pqueue, pw_running, pw_task, wtasks>>

PersistStopEnd(ok) == persist_stop_end(ok) /\ UNCHANGED app_vars

\* ------------------------------------------------------------------ pair analytics
Abs(x) == IF x < 0 THEN 0 - x ELSE x

RECURSIVE Sum(_)
Sum(xs) == IF xs = <<>> THEN 0 ELSE Head(xs) + Sum(Tail(xs))

\* merge_asof(..., tolerance=pd.Timedelta(seconds=1)), in milliseconds
ToleranceMs == 1000
\* _align_series: len(aligned) < 10
MinOverlap == 10
\* compute_hedge_ratio: len(aligned) < 50
MinRegression == 50
\* compute_hedge_ratio: std > mean * 10
VarianceFactor == 10

\* The row of b that merge_asof(direction="nearest") matches to time ts: the
\* nearest in time, the earlier one of two equally near; 0 when none lies
\* within the tolerance.
Nearest(b, ts) ==
    LET near == {j \in DOMAIN b : Abs(b[j].ts - ts) <= ToleranceMs}
    IN  IF near = {} THEN 0
        ELSE CHOOSE j \in near :
                \A k \in near :
                    \/ Abs(b[j].ts - ts) < Abs(b[k].ts - ts)
                    \/ Abs(b[j].ts - ts) = Abs(b[k].ts - ts) /\ (b[j].ts < b[k].ts \/ (b[j].ts = b[k].ts /\ j >= k))

\* _align_series before its length check: the rows of a that have a row of b
\* within the tolerance, as pairs of prices.
aligned(a, b) ==
    LET rows == SelectSeq([i \in DOMAIN a |-> [y |-> a[i].price, j |-> Nearest(b, a[i].ts)]],
                          LAMBDA r : r.j # 0)
    IN  [i \in DOMAIN rows |-> [y |-> rows[i].y, x |-> b[rows[i].j].price]]

\* std > mean * 10 for positive prices xs (the sample standard deviation),
\* in whole numbers: n (n sum(x^2) - sum(x)^2) > 100 (n - 1) sum(x)^2.
extreme_variance(xs) ==
    LET n == Len(xs)
        s1 == Sum(xs)
        s2 == Sum([i \in DOMAIN xs |-> xs[i] * xs[i]])
    IN  n > 1 /\ n * (n * s2 - s1 * s1) > VarianceFactor * VarianceFactor * (n - 1) * s1 * s1

\* compute_hedge_ratio raises ValueError (through _align_series or itself).
hedge_raises(a, b) ==
    LET al == aligned(a, b)
        ys == [i \in DOMAIN al |-> al[i].y]
        xs == [i \in DOMAIN al |-> al[i].x]
    IN  \/ Len(al) < MinOverlap
        \/ Len(al) < MinRegression
        \/ \E i \in DOMAIN al : ys[i] <= 0 \/ xs[i] <= 0
        \/ extreme_variance(ys) \/ extreme_variance(xs)

\* How compute_pair_metrics ends on two snapshots: the empty result when a
\* series is empty, an exception of compute_hedge_ratio, or the metrics.
pair_outcome(a, b) ==
    IF a = <<>> \/ b = <<>> THEN "empty"
    ELSE IF hedge_raises(a, b) THEN "raise"
    ELSE "ok"

\* The AnalyticsResponse of the empty result (an optional field: <<>> is None).
EmptyAnalytics ==
    [beta |-> 0, latest_spread |-> <<>>, latest_zscore |-> <<>>, rolling_correlation |-> <<>>,
     adf |-> <<>>]

\* The values a computed metric takes in the model.
MetricValues == {0 - 1, 1}
Optional(S) == {<<>>} \cup {<<v>> : v \in S}

\* The AnalyticsResponses of a computed result: the regression and the rolling
\* statistics are floating-point computations, left open here. The spread is
\* there whenever rows are aligned; z-score and correlation may be None.
OkAnalytics ==
    [beta : MetricValues, latest_spread : {<<v>> : v \in MetricValues},
     latest_zscore : Optional(MetricValues), rolling_correlation : Optional(MetricValues),
     adf : {<<>>}]

\* compute_pair_metrics: adf and len(spread) >= 10
MinAdf == 10

\* compute_adf's statistics, left open: one summary stands for them.
AdfSummary == [statistic |-> 1]

adf_step_uncaught(adf, n, test) ==
    IF adf /\ n >= MinAdf
    THEN [raised |-> test = "fail", payload |-> IF test = "ok" THEN <<AdfSummary>> ELSE <<>>]
    ELSE [raised |-> FALSE, payload |-> <<>>]

\* compute_pair_metrics' stationarity step on a spread of n rows: the test
\* runs when requested on enough rows, and its exception is swallowed.
adf_step(adf, n, test) ==
    IF adf /\ n >= MinAdf
    THEN [raised |-> FALSE, payload |-> IF test = "ok" THEN <<AdfSummary>> ELSE <<>>]
    ELSE [raised |-> FALSE, payload |-> <<>>]

\* LiveMetricsStream._run calls compute_pair_metrics with adf=False.
live_adf == FALSE

MetricKeys == {"spread", "zscore", "correlation", "beta"}

metric_of(an, k) ==
    CASE k = "spread" -> an.latest_spread
      [] k = "zscore" -> an.latest_zscore
      [] k = "correlation" -> an.rolling_correlation
      [] k = "beta" -> <<an.beta>>

metrics_map_unfiltered(an, outcome) ==
    [k \in MetricKeys |-> IF metric_of(an, k) = <<>> THEN 0 ELSE metric_of(an, k)[1]]

\* compute_pair_metrics' metrics_map: the metrics that are not None.
metrics_map(an, outcome) ==
    IF outcome = "empty" THEN [k \in {} |-> 0]
    ELSE [k \in {k \in MetricKeys : metric_of(an, k) # <<>>} |-> metric_of(an, k)[1]]

\* A series of n ticks of one symbol, one a second, at two alternating prices.
Series(symbol, n) ==
    [i \in 1..n |-> [symbol |-> symbol, ts |-> 1000 * i, price |-> 1 + (i % 2), size |-> 1]]

\* The lengths of the series compute_pair_metrics is called on: none, one,
\* and those around its two thresholds.
SeriesLengths == {0, 1, MinOverlap, MinRegression, MinRegression + 1}

\* One call of compute_pair_metrics on the two series the step before has
\* in last.
ComputePairMetrics(an, test) ==
    LET hedge == pair_outcome(last.ticks_a, last.ticks_b)
        rows == Len(aligned(last.ticks_a, last.ticks_b))
        step == adf_step(last.adf, rows, test)
        outcome == IF hedge = "ok" /\ step.raised THEN "raise" ELSE hedge
        res == IF outcome = "empty" THEN EmptyAnalytics ELSE [an EXCEPT !.adf = step.payload]
        call == [op |-> "pair_metrics", ticks_a |-> last.ticks_a, ticks_b |-> last.ticks_b,
                 adf |-> last.adf, test |-> test, hedge |-> hedge, rows |-> rows,
                 computed |-> an, outcome |-> outcome]
    IN  /\ last.op = "pair_input"
        /\ hedge = "ok" \/ an = EmptyAnalytics
        /\ hedge = "ok" => an \in OkAnalytics
        /\ (hedge = "ok" /\ last.adf) \/ test = "ok"
        /\ last' = IF outcome = "raise"
                   THEN [call EXCEPT !.computed = EmptyAnalytics]
                   ELSE [analytics |-> res, metrics |-> metrics_map(res, outcome)] @@ call
        /\ UNCHANGED <<app_vars, ingest_vars, persist_vars, live_vars>>

\* ------------------------------------------------------------------ alerts
deque_append_keeps_old(d, x, maxlen) ==
    IF Len(d) >= maxlen THEN d ELSE <<x>> \o d

\* deque(maxlen).appendleft: the element at the right end leaves when full.
DequeAppendLeft(d, x, maxlen) ==
    IF maxlen = 0 THEN d
    ELSE IF Len(d) >= maxlen THEN <<x>> \o SubSeq(d, 1, maxlen - 1) ELSE <<x>> \o d

compare_inclusive(value, operator, threshold) ==
    CASE operator \in {">", ">="} -> value >= threshold
      [] operator \in {"<", "<="} -> value <= threshold
      [] OTHER -> FALSE

\* AlertManager._compare
compare(value, operator, threshold) ==
    CASE operator = ">" -> value > threshold
      [] operator = ">=" -> value >= threshold
      [] operator = "<" -> value < threshold
      [] operator = "<=" -> value <= threshold
      [] OTHER -> FALSE

\* datetime.utcnow() as read by evaluate: the clock counts feed messages.
utcnow == sent

\* AlertManager.evaluate from rule i on: the rules, the history and the
\* events triggered so far.
triggers_inactive(a, metrics) ==
    a.metric \in DOMAIN metrics /\ compare(metrics[a.metric], a.operator, a.threshold)

\* evaluate's tests on one rule: active, the metric present, the comparison
triggers(a, metrics) ==
    /\ a.active
    /\ a.metric \in DOMAIN metrics
    /\ compare(metrics[a.metric], a.operator, a.threshold)

RECURSIVE evaluate_from(_, _, _, _, _)
evaluate_from(rs, hi, metrics, i, trig) ==
    IF i > Len(rs) THEN [alerts |-> rs, history |-> hi, triggered |-> trig]
    ELSE LET a == rs[i]
         IN  IF triggers(a, metrics)
             THEN LET ev == [alert_id |-> a.id, metric |-> a.metric, operator |-> a.operator,
                             threshold |-> a.threshold, metric_value |-> metrics[a.metric],
                             triggered_at |-> utcnow]
                  IN  evaluate_from([rs EXCEPT ![i].last_triggered = <<utcnow>>],
                                    DequeAppendLeft(hi, ev, HistoryLimit), metrics, i + 1,
                                    Append(trig, ev))
             ELSE evaluate_from(rs, hi, metrics, i + 1, trig)

\* AlertManager.evaluate
evaluate(rs, hi, metrics) == evaluate_from(rs, hi, metrics, 1, <<>>)

\* The alert API. A rule is a record of AlertManager._alerts, kept in the
\* dict's insertion order; its id is the next value of uuid4().
AlertOperator == {">", ">=", "<", "<="}
AlertMetrics == {"zscore", "volume"}
AlertThresholds == {1}
AlertCreate == [metric : AlertMetrics, operator : AlertOperator, threshold : AlertThresholds]
AlertIds == 1..(MaxAlerts + 1)
AlertValues == {0, 1, 2}
AlertSnapshots == {<<>>} \cup {[k \in {"zscore"} |-> v] : v \in AlertValues}

Known(rs, id) == \E i \in DOMAIN rs : rs[i].id = id
IndexOf(rs, id) == CHOOSE i \in DOMAIN rs : rs[i].id = id
Without(rs, id) == SelectSeq(rs, LAMBDA a : a.id # id)

\* POST /alerts: AlertManager.create_alert
CreateAlert(payload) ==
    /\ uuids < MaxAlerts
    /\ uuids' = uuids + 1
    /\ alerts' = Append(alerts, [id |-> uuids + 1, metric |-> payload.metric,
                                 operator |-> payload.operator, threshold |-> payload.threshold,
                                 active |-> TRUE, last_triggered |-> <<>>])
    /\ last' = [op |-> "create_alert", id |-> uuids + 1, status |-> 200]
    /\ UNCHANGED <<lifespan, held, settings, starter, alert_history, ingest_vars, persist_vars, live_vars_but_alerts>>

\* AlertManager.delete_alert: whether it raises KeyError
delete_alert_raises(id) == FALSE

\* DELETE /alerts/{alert_id}: the route over AlertManager.delete_alert
DeleteAlert(id) ==
    /\ alerts' = IF Known(alerts, id) THEN Without(alerts, id) ELSE alerts
    /\ last' = [op |-> "delete_alert", id |-> id,
                status |-> IF delete_alert_raises(id) THEN 404 ELSE 204]
    /\ UNCHANGED <<app_vars, alert_history, ingest_vars, persist_vars, live_vars_but_alerts>>

\* AlertManager.toggle_alert: self._alerts[alert_id] raises KeyError
toggle_alert_raises(id) == ~Known(alerts, id)

toggle_alert_rearms(rs, id, active) ==
    [rs EXCEPT ![IndexOf(rs, id)].active = active, ![IndexOf(rs, id)].last_triggered = <<>>]

\* AlertManager.toggle_alert: alert.active = active
toggle_alert(rs, id, active) == [rs EXCEPT ![IndexOf(rs, id)].active = active]

\* POST /alerts/{alert_id}/toggle: active is <<>> when the query parameter
\* is missing.
ToggleAlert(id, active) ==
    /\ IF active = <<>>
       THEN /\ last' = [op |-> "toggle_alert", id |-> id, status |-> 400]
            /\ UNCHANGED alerts
       ELSE IF toggle_alert_raises(id)
       THEN /\ last' = [op |-> "toggle_alert", id |-> id, status |-> 404]
            /\ UNCHANGED alerts
       ELSE /\ alerts' = toggle_alert(alerts, id, active[1])
            /\ last' = [op |-> "toggle_alert", id |-> id, status |-> 200]
    /\ UNCHANGED <<app_vars, alert_history, ingest_vars, persist_vars, live_vars_but_alerts>>

\* One call of AlertManager.evaluate on a metric snapshot.
Evaluate(metrics) ==
    LET r == evaluate(alerts, alert_history, metrics)
    IN  /\ alerts' = r.alerts
        /\ alert_history' = r.history
        /\ last' = [op |-> "evaluate", metrics |-> metrics, triggered |-> r.triggered,
                    dropped |-> Len(alert_history) + Len(r.triggered) - Len(r.history)]
        /\ UNCHANGED <<app_vars, ingest_vars, persist_vars, live_vars_but_alerts>>

\* ------------------------------------------------------------------ live metrics stream
LFinished(t) == t.st \in {"done", "cancelled", "failed"}

\* A start() that does not look at _running.
live_start_unguarded(limit) ==
    /\ Len(ltasks) < limit
    /\ live_running' = TRUE
    /\ tick_queues' = Append(tick_queues, <<>>)
    /\ live_tick_queue' = Len(tick_queues) + 1
    /\ subscribers' = subscribers \cup {Len(tick_queues) + 1}
    /\ ltasks' = Append(ltasks, [st |-> "created", cancel |-> FALSE, q |-> 0])
    /\ live_task' = Len(ltasks) + 1
    /\ last' = NoEvent
    /\ UNCHANGED <<ingest_vars_but_subscribers, persist_vars, live_subscribers, payload_queues,
                   latest_payload, alerts, alert_history, lstop>>

\* LiveMetricsStream.start, while fewer than limit tasks were created
live_start_upto(limit) ==
    /\ ~live_running
    /\ Len(ltasks) < limit
    /\ live_running' = TRUE
    /\ tick_queues' = Append(tick_queues, <<>>)
    /\ live_tick_queue' = Len(tick_queues) + 1
    /\ subscribers' = subscribers \cup {Len(tick_queues) + 1}
    /\ ltasks' = Append(ltasks, [st |-> "created", cancel |-> FALSE, q |-> 0])
    /\ live_task' = Len(ltasks) + 1
    /\ last' = NoEvent
    /\ UNCHANGED <<ingest_vars_but_subscribers, persist_vars, live_subscribers, payload_queues,
                   latest_payload, alerts, alert_history, lstop>>

live_start == live_start_upto(MaxLive)

LiveStart == live_start /\ UNCHANGED app_vars

\* LiveMetricsStream._build_payload
build_payload(tick, an, events) ==
    [timestamp |-> tick.ts, symbol |-> tick.symbol, price |-> tick.price,
     analytics |-> an, alerts |-> events]

\* A broadcast that makes room in a full subscriber queue by dropping its
\* oldest payload.
live_broadcast_evict(pq, payload) ==
    [i \in DOMAIN pq |->
        IF i \in live_subscribers
        THEN Append(IF full(pq[i], LiveSubMaxsize) THEN Tail(pq[i]) ELSE pq[i], payload)
        ELSE pq[i]]

\* LiveMetricsStream._broadcast: a full subscriber queue is skipped.
live_broadcast(pq, payload) ==
    [i \in DOMAIN pq |->
        IF i \in live_subscribers /\ ~full(pq[i], LiveSubMaxsize)
        THEN Append(pq[i], payload) ELSE pq[i]]

\* The two buffers _run reads, and what compute_pair_metrics makes of them.
SymA == DefaultSymbols[1]
SymB == DefaultSymbols[2]
Outcome == pair_outcome(snapshot(data, SymA), snapshot(data, SymB))

\* What a run of the live task works on.
LiveState(l) ==
    [st |-> ltasks[l].st, q |-> ltasks[l].q, tq |-> tick_queues, pq |-> payload_queues,
     latest |-> latest_payload, alerts |-> alerts, history |-> alert_history, emitted |-> 0,
     payloads |-> <<>>, taken |-> 0]

\* _run from its get() on tick queue q, until it suspends or ends. A get() on
\* an empty queue suspends; on a queue with items it returns at once, and
\* nothing else in the loop suspends, so one run works through every tick
\* that is waiting. compute_pair_metrics sees the same buffers for each of
\* them; its ValueError is caught nowhere in _run and ends the task.
RECURSIVE run_loop(_, _, _)
run_loop(s, q, an) ==
    IF s.tq[q] = <<>> THEN [s EXCEPT !.st = "waiting", !.q = q]
    ELSE LET tick == Head(s.tq[q])
             got == [s EXCEPT !.tq[q] = Tail(@), !.taken = @ + 1]
         IN  IF Outcome = "raise" THEN [got EXCEPT !.st = "failed"]
             ELSE LET res == IF Outcome = "empty" THEN EmptyAnalytics
                             ELSE [an EXCEPT !.adf =
                                     adf_step(live_adf, Len(aligned(snapshot(data, SymA),
                                                                    snapshot(data, SymB))), "ok").payload]
                      ev == evaluate(got.alerts, got.history, metrics_map(res, Outcome))
                      payload == build_payload(tick, res, ev.triggered)
                      done == [got EXCEPT !.alerts = ev.alerts, !.history = ev.history,
                                          !.latest = <<payload>>,
                                          !.pq = live_broadcast(got.pq, payload),
                                          !.emitted = @ + 1,
                                          !.payloads = Append(@, payload)]
                  IN  IF live_running /\ live_tick_queue # 0
                      THEN run_loop(done, live_tick_queue, an)
                      ELSE [done EXCEPT !.st = "done"]

\* The state a run of task l leaves behind, and what the step records.
LiveRan(l, s, waiting) ==
    /\ ltasks' = [ltasks EXCEPT ![l] = [st |-> s.st, cancel |-> FALSE, q |-> s.q]]
    /\ tick_queues' = s.tq
    /\ payload_queues' = s.pq
    /\ latest_payload' = s.latest
    /\ alerts' = s.alerts
    /\ alert_history' = s.history
    /\ last' = [op |-> "live_run", task |-> l, outcome |-> Outcome, waiting |-> waiting,
                emitted |-> s.emitted, payloads |-> s.payloads, taken |-> s.taken,
                before |-> [pq |-> payload_queues, subs |-> live_subscribers]]

\* The first step of the live task: the default symbols, the while test, and
\* the loop from its first get().
LiveBegin(l, an) ==
    /\ l \in DOMAIN ltasks
    /\ ltasks[l].st = "created"
    /\ ~ltasks[l].cancel
    /\ IF Len(DefaultSymbols) < 2 \/ ~(live_running /\ live_tick_queue # 0)
       THEN LiveRan(l, [LiveState(l) EXCEPT !.st = "done"], <<>>)
       ELSE LiveRan(l, run_loop(LiveState(l), live_tick_queue, an), tick_queues[live_tick_queue])
    /\ UNCHANGED <<app_vars, ingest_vars, persist_vars, live_running, live_task, live_tick_queue,
                   live_subscribers, lstop>>

\* The live task resumed by a tick on the queue its get() waits on.
LiveRun(l, an) ==
    /\ l \in DOMAIN ltasks
    /\ ltasks[l].st = "waiting"
    /\ ~ltasks[l].cancel
    /\ tick_queues[ltasks[l].q] # <<>>
    /\ LiveRan(l, run_loop(LiveState(l), ltasks[l].q, an), tick_queues[ltasks[l].q])
    /\ UNCHANGED <<app_vars, ingest_vars, persist_vars, live_running, live_task, live_tick_queue,
                   live_subscribers, lstop>>

\* A cancelled live task runs: not yet started it ends as cancelled; in its
\* get() the CancelledError is caught by _run and the task ends normally.
LiveCancelled(l) ==
    /\ l \in DOMAIN ltasks
    /\ ltasks[l].cancel
    /\ ltasks[l].st \in {"created", "waiting"}
    /\ ltasks' = [ltasks EXCEPT ![l].st = IF ltasks[l].st = "created" THEN "cancelled" ELSE "done"]
    /\ last' = NoEvent
    /\ UNCHANGED <<app_vars, ingest_vars, persist_vars, tick_queues, live_running, live_task, live_tick_queue,
                   live_subscribers, payload_queues, latest_payload, alerts, alert_history, lstop>>

\* stop() once its await of the task is over: the exception of a failed task
\* propagates out of stop().
LiveStopTail(t) ==
    /\ lstop' = [st |-> "idle", task |-> 0]
    /\ last' = [op |-> "live_stopped", task |-> t, raised |-> ltasks[t].st = "failed"]

\* LiveMetricsStream.stop: if not self._running: return
live_stop_skips == ~live_running

\* LiveMetricsStream.stop up to its await of the task; a task that has
\* already ended does not suspend it.
live_stop_begin ==
    IF live_stop_skips
    THEN /\ last' = Skipped("live")
         /\ UNCHANGED <<ingest_vars, persist_vars, live_vars>>
    ELSE /\ lstop.st = "idle"
         /\ live_running' = FALSE
         /\ subscribers' = IF live_tick_queue # 0 THEN subscribers \ {live_tick_queue} ELSE subscribers
         /\ IF live_task = 0
            THEN /\ lstop' = lstop
                 /\ last' = [op |-> "live_stopped", task |-> 0, raised |-> FALSE]
                 /\ UNCHANGED ltasks
            ELSE IF LFinished(ltasks[live_task])
            THEN /\ LiveStopTail(live_task)
                 /\ UNCHANGED ltasks
            ELSE /\ ltasks' = [ltasks EXCEPT ![live_task].cancel = TRUE]
                 /\ lstop' = [st |-> "awaiting", task |-> live_task]
                 /\ last' = NoEvent
         /\ UNCHANGED <<ingest_vars_but_subscribers, persist_vars, tick_queues, live_task, live_tick_queue,
                        live_subscribers, payload_queues, latest_payload, alerts, alert_history>>

LiveStopBegin == live_stop_begin /\ UNCHANGED app_vars

\* stop() resumed by the end of the task it awaits.
live_stop_end ==
    /\ lstop.st = "awaiting"
    /\ LFinished(ltasks[lstop.task])
    /\ LiveStopTail(lstop.task)
    /\ UNCHANGED <<ingest_vars, persist_vars, tick_queues, live_running, live_task, ltasks,
                   live_tick_queue, live_subscribers, payload_queues, latest_payload, alerts,
                   alert_history>>

LiveStopEnd == live_stop_end /\ UNCHANGED app_vars

subscribe_queue_empty == <<>>

\* LiveMetricsStream.subscribe: the new queue, holding the latest payload when
\* there is one.
subscribe_queue == IF latest_payload # <<>> THEN <<latest_payload[1]>> ELSE <<>>

\* The /live websocket handler up to its first queue.get(): subscribe() builds
\* a queue that starts with the latest payload, if there is one.
LiveSubscribe ==
    /\ Len(payload_queues) < MaxSubs
    /\ payload_queues' = Append(payload_queues, subscribe_queue)
    /\ live_subscribers' = live_subscribers \cup {Len(payload_queues) + 1}
    /\ last' = [op |-> "subscribe", queue |-> Len(payload_queues) + 1]
    /\ UNCHANGED <<app_vars, ingest_vars, persist_vars, tick_queues, live_running, live_task, ltasks,
                   live_tick_queue, latest_payload, alerts, alert_history, lstop>>

\* The websocket handler takes a payload off its queue and sends it.
ClientSend(i) ==
    /\ i \in live_subscribers
    /\ payload_queues[i] # <<>>
    /\ payload_queues' = [payload_queues EXCEPT ![i] = Tail(@)]
    /\ last' = NoEvent
    /\ UNCHANGED <<app_vars, ingest_vars, persist_vars, tick_queues, live_running, live_task, ltasks,
                   live_tick_queue, live_subscribers, latest_payload, alerts, alert_history, lstop>>

\* The websocket disconnects: the handler's finally block, unsubscribe().
ClientDisconnect(i) ==
    /\ i \in live_subscribers
    /\ live_subscribers' = live_subscribers \ {i}
    /\ last' = NoEvent
    /\ UNCHANGED <<app_vars, ingest_vars, persist_vars, tick_queues, live_running, live_task, ltasks,
                   live_tick_queue, payload_queues, latest_payload, alerts, alert_history, lstop>>

\* ------------------------------------------------------------------ callers of the buffer
\* The list object a caller got from snapshot is held as a record: ref says
\* which object it is, "own" for a list of its own with the items in items,
\* or the symbol whose deque it is; "none" before any call.
snapshot_ref_aliases(symbol) == symbol

\* TickBuffer.snapshot: list(...) builds a new list object
snapshot_ref(symbol) == "own"

\* The items of the held list as its holder reads them now.
HeldList ==
    IF held.ref \in {"none", "own"} THEN held.items ELSE snapshot(data, held.ref)

\* A caller takes snapshot(symbol) and keeps the list.
TakeSnapshot(symbol) ==
    /\ held' = [ref |-> snapshot_ref(symbol), symbol |-> symbol, items |-> snapshot(data, symbol)]
    /\ last' = [op |-> "snapshot", symbol |-> symbol]
    /\ UNCHANGED <<lifespan, uuids, settings, starter, ingest_vars, persist_vars, live_vars>>

\* The caller empties the list it holds (list.clear()).
ClearHeld ==
    /\ held.ref # "none"
    /\ HeldList # <<>>
    /\ IF held.ref = "own"
       THEN held' = [held EXCEPT !.items = <<>>] /\ UNCHANGED data
       ELSE data' = [data EXCEPT ![held.ref] = <<>>] /\ UNCHANGED held
    /\ last' = [op |-> "clear_held"]
    /\ UNCHANGED <<lifespan, uuids, settings, starter, symbols, running, queue, subscribers, ctasks, taskset, istop,
                   sent, hist, drops, persist_vars, live_vars>>

\* A call of TickBuffer.ensure_symbol.
EnsureSymbol(symbol) ==
    /\ data' = ensure_symbol(data, symbol)
    /\ last' = [op |-> "ensure_symbol", symbol |-> symbol]
    /\ UNCHANGED <<app_vars, symbols, running, queue, subscribers, ctasks, taskset, istop,
                   sent, hist, drops, persist_vars, live_vars>>

\* ------------------------------------------------------------------ lifespan
\* The shutdown half of main.py's lifespan: live_metrics_stream.stop(),
\* persistence_worker.stop(), ingest_service.stop(), each in a try that
\* swallows its exception, then remove_subscriber(persistence_worker.queue).
\* lifespan is "serving" until the shutdown begins, "live_wait",
\* "persist_wait" or "ingest_wait" while a stop() it awaits is suspended,
\* "persist_call", "ingest_call" or "release" when it goes on to its next
\* call without suspending, and "down" at its end.

\* No other task runs while the lifespan coroutine has not suspended.
Quiet == lifespan \notin {"persist_call", "ingest_call", "release"}

ShutdownBegin ==
    /\ lifespan = "serving"
    /\ live_stop_begin
    /\ lifespan' = IF lstop'.st = "awaiting" THEN "live_wait" ELSE "persist_call"
    /\ UNCHANGED app_vars_but_lifespan

ShutdownLiveStopped ==
    /\ lifespan = "live_wait"
    /\ live_stop_end
    /\ lifespan' = "persist_call"
    /\ UNCHANGED app_vars_but_lifespan

ShutdownPersist(ok) ==
    /\ lifespan = "persist_call"
    /\ persist_stop_begin(ok)
    /\ lifespan' = IF pstop'.st = "awaiting" THEN "persist_wait" ELSE "ingest_call"
    /\ UNCHANGED app_vars_but_lifespan

ShutdownPersistStopped(ok) ==
    /\ lifespan = "persist_wait"
    /\ persist_stop_end(ok)
    /\ lifespan' = "ingest_call"
    /\ UNCHANGED app_vars_but_lifespan

ShutdownIngest ==
    /\ lifespan = "ingest_call"
    /\ ingest_stop_begin
    /\ lifespan' = IF istop'.active THEN "ingest_wait" ELSE "release"
    /\ UNCHANGED app_vars_but_lifespan

ShutdownIngestStopped ==
    /\ lifespan = "ingest_wait"
    /\ ingest_stop_end
    /\ lifespan' = "release"
    /\ UNCHANGED app_vars_but_lifespan

\* ingest_service.remove_subscriber(persistence_worker.queue)
ShutdownRelease ==
    /\ lifespan = "release"
    /\ subscribers' = subscribers \ {0}
    /\ lifespan' = "down"
    /\ last' = NoEvent
    /\ UNCHANGED <<ingest_vars_but_subscribers, persist_vars, live_vars>>
    /\ UNCHANGED app_vars_but_lifespan

Shutdown ==
    \/ ShutdownBegin
    \/ ShutdownLiveStopped
    \/ \E ok \in BOOLEAN : ShutdownPersist(ok)
    \/ \E ok \in BOOLEAN : ShutdownPersistStopped(ok)
    \/ ShutdownIngest
    \/ ShutdownIngestStopped
    \/ ShutdownRelease

\* The startup half: the task the lifespan creates for start_services_async
\* before it yields. Its three start() calls suspend nowhere, so once the
\* task runs it runs to its end; starter is "pending" until it runs,
\* "persist_call" and "live_call" between its calls, and "done" at its end.
StarterIdle == starter \in {"pending", "done"}

StarterIngest ==
    /\ starter = "pending"
    /\ Quiet
    /\ ingest_start
    /\ starter' = "persist_call"
    /\ UNCHANGED <<lifespan, uuids, held, settings>>

StarterPersist ==
    /\ starter = "persist_call"
    /\ IF pw_running
       THEN last' = NoEvent /\ UNCHANGED <<ingest_vars, persist_vars, live_vars>>
       ELSE persist_start
    /\ starter' = "live_call"
    /\ UNCHANGED <<lifespan, uuids, held, settings>>

StarterLive ==
    /\ starter = "live_call"
    /\ IF live_running
       THEN last' = NoEvent /\ UNCHANGED <<ingest_vars, persist_vars, live_vars>>
       ELSE live_start
    /\ starter' = "done"
    /\ UNCHANGED <<lifespan, uuids, held, settings>>

Starter ==
    \/ StarterIngest
    \/ StarterPersist
    \/ StarterLive

\* ------------------------------------------------------------------ specification
Consumer ==
    \E t \in 1..MaxTasks :
        \/ ConsumerBegin(t)
        \/ ConnectOk(t)
        \/ ConnectFail(t)
        \/ BackoffDone(t)
        \/ ConnectionLost(t)
        \/ FeedClosed(t)
        \/ ConsumerCancelled(t)
        \/ sent < MaxMsgs /\ \E m \in FeedMessages(sent + 1) : ConsumerMessage(t, m)

Worker ==
    \E w \in 1..MaxWorkers, ok \in BOOLEAN :
        \/ WorkerBegin(w, ok)
        \/ WorkerGet(w, ok)
        \/ WorkerTimeout(w, ok)
        \/ \E take \in BOOLEAN : WorkerCancelled(w, take, ok)

\* The well-formed trade messages among the feed's.
TradeMessages(n) == {m \in FeedMessages(n) : parse_message("btcusdt", m).kind = "tick"}

\* The ingest service alone: the persistence queue is a subscriber nobody reads.
Next ==
    \/ IngestStart
    \/ IngestStopBegin
    \/ IngestStopEnd
    \/ Consumer

Spec == Init /\ [][Next]_vars

\* The ingest service on an event loop that runs every timer that is due:
\* the asyncio.sleep of a backing-off consumer returns.
SpecRetry == Init /\ [][Next]_vars /\ \A t \in 1..MaxTasks : WF_vars(BackoffDone(t))

\* The ingest service under every interleaving of start, stop, add_symbol
\* and update_symbols with its consumer tasks.
NextSymbols ==
    \/ IngestStart
    \/ IngestStopBegin
    \/ IngestStopEnd
    \/ \E s \in InputSymbols : AddSymbol(s)
    \/ \E S \in SUBSET InputSymbols : UpdateSymbols(S)
    \/ \E t \in 1..MaxTasks :
        \/ ConsumerBegin(t)
        \/ ConnectOk(t)
        \/ ConnectFail(t)
        \/ BackoffDone(t)
        \/ ConsumerCancelled(t)
        \/ sent < MaxSymbolMsgs /\ \E m \in TradeMessages(sent + 1) : ConsumerMessage(t, m)

SpecSymbols == InitOne /\ [][NextSymbols]_vars

\* add_symbol on a service that is started and stopped while its consumers
\* stream.
NextAddSymbol ==
    \/ IngestStart
    \/ IngestStopBegin
    \/ IngestStopEnd
    \/ \E s \in InputSymbols : AddSymbol(s)
    \/ \E t \in 1..MaxTasks :
        \/ ConsumerBegin(t)
        \/ ConnectOk(t)
        \/ ConsumerCancelled(t)
        \/ sent < MaxSymbolMsgs /\ \E m \in TradeMessages(sent + 1) : ConsumerMessage(t, m)

SpecAddSymbol == InitOne /\ [][NextAddSymbol]_vars

\* The consumers once connected, fed well-formed trades, limit of them.
Producer(limit) ==
    \/ IngestStart
    \/ \E t \in 1..MaxTasks :
        \/ ConsumerBegin(t)
        \/ ConnectOk(t)
        \/ sent < limit /\ \E m \in TradeMessages(sent + 1) : ConsumerMessage(t, m)

\* The persistence worker behind a streaming ingest service.
NextPersist ==
    \/ Producer(MaxPersistMsgs)
    \/ PersistStart
    \/ \E ok \in BOOLEAN : PersistStopBegin(ok)
    \/ \E ok \in BOOLEAN : PersistStopEnd(ok)
    \/ Worker

SpecPersist == InitOne /\ [][NextPersist]_vars

\* The running worker behind the consumers of two symbols.
NextOrder ==
    \/ Producer(MaxPersistMsgs)
    \/ PersistStart
    \/ \E w \in 1..MaxWorkers, ok \in BOOLEAN :
        \/ WorkerBegin(w, ok)
        \/ WorkerGet(w, ok)
        \/ WorkerTimeout(w, ok)

SpecOrder == Init /\ [][NextOrder]_vars

\* ------------------------------------------------------------------ time
\* A worker task the event loop can run now.
WorkerReady(w) ==
    \/ wtasks[w].st = "created"
    \/ wtasks[w].st = "waiting" /\ (wtasks[w].cancel \/ pqueue # <<>> \/ wtasks[w].timer = 0)

\* One second passes. The event loop runs what is ready first, so time moves
\* only while every worker waits with time left on its wait_for.
Advance ==
    /\ \E w \in DOMAIN wtasks : Waiting(w)
    /\ \A w \in DOMAIN wtasks : ~WorkerReady(w)
    /\ wtasks' = [w \in DOMAIN wtasks |->
                    IF Waiting(w) THEN [wtasks[w] EXCEPT !.timer = @ - 1] ELSE wtasks[w]]
    /\ batch_age' = IF batch = <<>> THEN 0 ELSE Min(batch_age + 1, AgeCap)
    /\ last' = NoEvent
    /\ UNCHANGED <<app_vars, live_vars, ingest_vars, pqueue, pw_running, pw_task, batch, inserts, pstop>>

\* wait_for raises TimeoutError when its flush_interval has run out.
WorkerTimeoutTimed(w, ok) ==
    /\ w \in DOMAIN wtasks
    /\ wtasks[w].timer = 0
    /\ TimeoutHandler(w, ok)

\* The persistence worker with the clock.
NextTimed ==
    \/ Producer(MaxPersistMsgs)
    \/ PersistStart
    \/ \E w \in 1..MaxWorkers, ok \in BOOLEAN :
        \/ WorkerBegin(w, ok)
        \/ WorkerGet(w, ok)
        \/ WorkerTimeoutTimed(w, ok)
    \/ Advance

SpecTimed == InitOne /\ [][NextTimed]_vars

\* A consumer task whose sleep is over.
BackoffDue(t) == ctasks[t].st = "backoff" /\ ctasks[t].slept >= reconnect_sleep

\* One second passes for the consumers that back off. The event loop runs a
\* timer that is due first, so time moves only while none is.
BackoffAdvance ==
    /\ \E t \in DOMAIN ctasks : ctasks[t].st = "backoff"
    /\ \A t \in DOMAIN ctasks : ~BackoffDue(t)
    /\ ctasks' = [t \in DOMAIN ctasks |->
                    IF ctasks[t].st = "backoff" THEN [ctasks[t] EXCEPT !.slept = @ + 1] ELSE ctasks[t]]
    /\ last' = NoEvent
    /\ UNCHANGED <<app_vars, symbols, running, data, queue, subscribers, taskset, istop, sent, hist, drops,
                   persist_vars, live_vars>>

\* asyncio.sleep returns when its delay has passed.
BackoffDoneTimed(t) ==
    /\ t \in DOMAIN ctasks
    /\ BackoffDue(t)
    /\ BackoffDone(t)

\* The consumers with the clock of their backoff, on a feed that fails.
NextReconnect ==
    \/ IngestStart
    \/ BackoffAdvance
    \/ \E t \in 1..MaxTasks :
        \/ ConsumerBegin(t)
        \/ ConnectOk(t)
        \/ ConnectFail(t)
        \/ ConnectionLost(t)
        \/ BackoffDoneTimed(t)
        \/ sent < MaxSymbolMsgs /\ \E m \in TradeMessages(sent + 1) : ConsumerMessage(t, m)

SpecReconnect == Init /\ [][NextReconnect]_vars

\* ------------------------------------------------------------------ live specification
\* What compute_pair_metrics may return on the buffers as they are.
Computed == IF Outcome = "ok" THEN OkAnalytics ELSE {EmptyAnalytics}

Live ==
    \E l \in 1..MaxLive :
        \/ LiveCancelled(l)
        \/ \E an \in Computed : LiveBegin(l, an)
        \/ \E an \in Computed : LiveRun(l, an)

Client ==
    \/ LiveSubscribe
    \/ \E i \in 1..MaxSubs : ClientSend(i)
    \/ \E i \in 1..MaxSubs : ClientDisconnect(i)

\* The live metrics stream behind a streaming ingest service, with no
\* websocket client connected.
NextLive ==
    \/ Producer(MaxLiveMsgs)
    \/ LiveStart
    \/ LiveStopBegin
    \/ LiveStopEnd
    \/ Live

SpecLive == Init /\ [][NextLive]_vars

\* The same with websocket clients coming and going.
NextClients ==
    \/ NextLive
    \/ Client

SpecClients == Init /\ [][NextClients]_vars

\* The two broadcasts, of ticks and of payloads, with subscribers that read
\* and subscribers that do not; nothing is stopped.
NextBroadcast ==
    \/ Producer(MaxLiveMsgs)
    \/ LiveStart
    \/ \E l \in 1..MaxLive, an \in Computed : LiveBegin(l, an)
    \/ \E l \in 1..MaxLive, an \in Computed : LiveRun(l, an)
    \/ Client

SpecBroadcast == Init /\ [][NextBroadcast]_vars

\* The whole pipeline, started and then shut down by the lifespan.
NextShutdown ==
    \/ lifespan = "serving" /\ PersistStart
    \/ lifespan = "serving" /\ LiveStart
    \/ Quiet /\ Producer(MaxLiveMsgs)
    \/ Quiet /\ \E t \in 1..MaxTasks : ConsumerCancelled(t)
    \/ Quiet /\ Worker
    \/ Quiet /\ Live
    \/ Shutdown

SpecShutdown == InitOne /\ [][NextShutdown]_vars

\* The application's lifespan: the start task, the tasks it starts, and the
\* shutdown.
NextLifespan ==
    \/ Starter
    \/ StarterIdle /\ Shutdown
    \/ (StarterIdle /\ Quiet) /\ \E t \in 1..MaxTasks :
            \/ ConsumerBegin(t) \/ ConnectOk(t) \/ ConsumerCancelled(t)
            \/ sent < MaxSymbolMsgs /\ \E m \in TradeMessages(sent + 1) : ConsumerMessage(t, m)
    \/ (StarterIdle /\ Quiet) /\ \E w \in 1..MaxWorkers :
            WorkerBegin(w, TRUE) \/ WorkerCancelled(w, FALSE, TRUE)
    \/ (StarterIdle /\ Quiet) /\ \E l \in 1..MaxLive :
            LiveCancelled(l) \/ LiveBegin(l, EmptyAnalytics)

SpecLifespan == InitOne /\ [][NextLifespan]_vars

\* The three components started and stopped in any order, any number of
\* times, with no feed: their tasks begin, wait, and end when cancelled.
NextStops ==
    \/ IngestStart
    \/ IngestStopBegin
    \/ IngestStopEnd
    \/ \E t \in 1..MaxTasks : ConsumerBegin(t) \/ ConsumerCancelled(t)
    \/ PersistStart
    \/ \E ok \in BOOLEAN : PersistStopBegin(ok)
    \/ \E ok \in BOOLEAN : PersistStopEnd(ok)
    \/ \E w \in 1..MaxWorkers, ok \in BOOLEAN : WorkerBegin(w, ok) \/ WorkerCancelled(w, FALSE, ok)
    \/ LiveStart
    \/ LiveStopBegin
    \/ LiveStopEnd
    \/ \E l \in 1..MaxLive : LiveCancelled(l)

SpecStops == InitOne /\ [][NextStops]_vars

\* One symbol's feed of five ticks through a buffer of three ticks and a
\* worker with batches of two whose flush interval never runs out and whose
\* store accepts every batch.
InitPipeline ==
    /\ InitComponents({"btcusdt"})
    /\ settings = [tick_buffer_size |-> 3, db_batch_size |-> 2]
    /\ last = NoEvent

NextPipeline ==
    \/ Producer(5)
    \/ PersistStart
    \/ \E w \in 1..MaxWorkers : WorkerBegin(w, TRUE) \/ WorkerGet(w, TRUE)

SpecPipeline == InitPipeline /\ [][NextPipeline]_vars

\* The tick buffer under a streaming consumer and callers that take
\* snapshots, change the lists they got and ensure symbols.
BufferSymbols == {"btcusdt", "ethusdt"}

NextBuffer ==
    \/ Producer(MaxSymbolMsgs)
    \/ \E s \in BufferSymbols : TakeSnapshot(s)
    \/ ClearHeld
    \/ \E s \in BufferSymbols : EnsureSymbol(s)

SpecBuffer == InitOne /\ [][NextBuffer]_vars

\* compute_pair_metrics as a function of its two series.
InitMetrics ==
    /\ InitComponents(Range(DefaultSymbols))
    /\ settings = ModelSettings
    /\ \E n, k \in SeriesLengths, adf \in BOOLEAN :
        last = [op |-> "pair_input", ticks_a |-> Series(DefaultSymbols[1], n),
                ticks_b |-> Series(DefaultSymbols[2], k), adf |-> adf]

NextMetrics ==
    \E an \in OkAnalytics \cup {EmptyAnalytics}, test \in {"ok", "fail"} :
        ComputePairMetrics(an, test)

SpecMetrics == InitMetrics /\ [][NextMetrics]_vars

\* The alert manager under its API and evaluations of arbitrary snapshots.
AlertApi ==
    \/ \E p \in AlertCreate : CreateAlert(p)
    \/ \E id \in AlertIds : DeleteAlert(id)
    \/ \E id \in AlertIds, active \in Optional(BOOLEAN) : ToggleAlert(id, active)

NextAlerts ==
    \/ AlertApi
    \/ \E m \in AlertSnapshots : Evaluate(m)

SpecAlerts == InitOne /\ [][NextAlerts]_vars

\* ------------------------------------------------------------------ claims
\* The drops the ingest service has counted: it keeps no counter, and the
\* full() branch of _broadcast only logs at debug level and continues.
counted_drops == 0

\* The ticks ever handed to insert_ticks.
Handed == UNION {Range(inserts[i].ticks) : i \in DOMAIN inserts}

\* The last step handled a feed message while the service was running.
Handled == last.op = "message" /\ last.result # "break"

\* C1: for every symbol, snapshot returns exactly the last min(N, C) ticks
\* appended for it, in append order: never more than C, the oldest evicted.
C1_SnapshotIsLastC ==
    \A s \in AllSymbols :
        /\ Len(snapshot(data, s)) <= BufferSize
        /\ snapshot(data, s) = Last(hist[s], Min(Len(hist[s]), BufferSize))

\* C1 witness: a symbol has had more appends than the capacity.
C1_Witness == \E s \in AllSymbols : Len(hist[s]) > BufferSize /\ Len(data[s]) = BufferSize

\* C2: a malformed feed message is dropped without any other effect: the
\* consumer stays streaming, nothing is appended, enqueued or broadcast, and
\* no backoff starts.
C2_MalformedDropped ==
    (Handled /\ last.malformed) =>
        /\ ctasks[last.task].st = "streaming"
        /\ last.result = "none"
        /\ Len(hist[last.sym]) = last.before.h
        /\ Len(queue) = last.before.q
        /\ Len(pqueue) = last.before.pq

\* The tick of the last message step is the newest of its symbol's buffer and
\* of the primary queue, each one longer than before.
AppendedOnce ==
    /\ Len(hist[last.sym]) = last.before.h + 1
    /\ data[last.sym] # <<>>
    /\ data[last.sym][Len(data[last.sym])] = last.tick
    /\ Len(queue) = last.before.q + 1
    /\ queue[Len(queue)] = last.tick

\* The tick of the last message step was put once on the persistence queue.
PlacedOnce ==
    /\ Len(pqueue) = last.before.pq + 1
    /\ pqueue[Len(pqueue)] = last.tick

\* C3 as claimed: every well-formed message becomes one tick, appended once
\* to the buffer and placed once on the persistence queue.
C3_Original ==
    (Handled /\ ~last.malformed) =>
        /\ last.result = "tick"
        /\ AppendedOnce
        /\ PlacedOnce

\* The tick of the last message step was put once on live tick queue i.
OfferedOnce(i) ==
    /\ Len(tick_queues[i]) = last.before.tq[i] + 1
    /\ tick_queues[i][Len(tick_queues[i])] = last.tick

\* C3 amended: every well-formed message becomes one tick, appended once to
\* the buffer and to the primary queue, and put once on every registered
\* subscriber queue that has room, the persistence queue among them; a queue
\* that is full or not registered is left as it was.
C3_PlacedUnlessFull ==
    (Handled /\ ~last.malformed) =>
        /\ last.result = "tick"
        /\ AppendedOnce
        /\ IF 0 \in last.before.subs /\ last.before.pq < PersistMaxsize
           THEN PlacedOnce
           ELSE Len(pqueue) = last.before.pq /\ last.tick \notin Range(pqueue)
        /\ \A i \in DOMAIN tick_queues :
            IF i \in last.before.subs /\ last.before.tq[i] < LiveTickMaxsize
            THEN OfferedOnce(i)
            ELSE Len(tick_queues[i]) = last.before.tq[i] /\ last.tick \notin Range(tick_queues[i])

\* C3 witness: a well-formed message was handled and its tick was placed on
\* the persistence queue and on a live tick queue.
C3_Witness ==
    /\ Handled /\ ~last.malformed /\ PlacedOnce
    /\ \E i \in DOMAIN tick_queues : i \in last.before.subs /\ OfferedOnce(i)

\* C4: a failed flush of the worker's loop leaves the worker task running.
C4_WorkerSurvivesFlushFailure ==
    \A i \in DOMAIN inserts :
        (~inserts[i].ok /\ inserts[i].cause \in {"size", "idle"}) =>
            wtasks[inserts[i].by].st \notin {"failed", "done", "cancelled"}

\* C5: when the pair analytics are not computable, the live task does not
\* end: it waits for the next tick, having emitted a payload for every tick
\* that was waiting, the latest one without the unavailable metrics.
C5_LiveSurvivesNotComputable ==
    (last.op = "live_run" /\ last.waiting # <<>> /\ last.outcome # "ok") =>
        /\ ltasks[last.task].st = "waiting"
        /\ last.emitted = Len(last.waiting)
        /\ latest_payload # <<>>
        /\ latest_payload[1].timestamp = last.waiting[Len(last.waiting)].ts
        /\ latest_payload[1].analytics.latest_spread = <<>>
        /\ latest_payload[1].analytics.latest_zscore = <<>>
        /\ latest_payload[1].analytics.rolling_correlation = <<>>

\* C6: once stop() has returned, after the worker task ran its cleanup, every
\* tick that was in the queue or the batch when the stop was requested has
\* been handed to the store.
C6_StopDrainsQueue ==
    (last.op = "persist_stopped" /\ ~last.raised /\ wtasks[last.task].st = "done") =>
        last.snap \subseteq Handed

\* C8: a worker waiting for the next queue item holds fewer than batch_size
\* ticks, and a size-triggered flush writes exactly batch_size ticks.
C8_FlushAtBatchSize ==
    /\ \A w \in DOMAIN wtasks : Waiting(w) => Len(batch) < BatchSize
    /\ \A i \in DOMAIN inserts :
        inserts[i].cause = "size" => Len(inserts[i].ticks) = BatchSize

\* C8 witness: a size-triggered flush has committed and the worker waits again.
C8_Witness ==
    /\ \E i \in DOMAIN inserts : inserts[i].cause = "size" /\ inserts[i].ok
    /\ \E w \in DOMAIN wtasks : Waiting(w)

\* The last message step found the persistence queue full.
FoundFull == Handled /\ last.result = "tick" /\ 0 \in last.before.subs /\ last.before.pq >= PersistMaxsize

\* C9 as claimed: a tick that meets a full persistence queue is dropped, the
\* drop is counted, and the consumer goes on.
C9_Original ==
    /\ counted_drops = drops
    /\ FoundFull => ctasks[last.task].st = "streaming"

\* C9 amended: a tick that meets a full persistence queue is dropped for that
\* queue at once, without blocking: the consumer is streaming again, the
\* queue is as it was, and the tick is in the buffer and the primary queue.
C9_DroppedAtOnce ==
    FoundFull =>
        /\ ctasks[last.task].st = "streaming"
        /\ Len(pqueue) = PersistMaxsize
        /\ last.tick \notin Range(pqueue)
        /\ AppendedOnce
        /\ drops > 0

\* C9 witness: a tick met a full persistence queue.
C9_Witness == FoundFull /\ drops > 0

\* C10: every queue holds at most its finite capacity, however many ticks
\* have been ingested: the persistence queue, the live tick queues and the
\* payload queues of the live subscribers stay within their maxsize, and the
\* primary queue never holds every one of the MaxMsgs ticks ingested.
C10_QueuesBounded ==
    /\ Len(queue) < MaxMsgs
    /\ Len(pqueue) <= PersistMaxsize
    /\ \A i \in DOMAIN tick_queues : Len(tick_queues[i]) <= LiveTickMaxsize
    /\ \A i \in DOMAIN payload_queues : Len(payload_queues[i]) <= LiveSubMaxsize

\* C7: a tick never waits in the batch longer than one flush interval, also
\* while ticks keep arriving less than a flush interval apart.
C7_FlushWithinInterval == batch # <<>> => batch_age <= FlushInterval

\* The payloads of the last run of the live task that fit into a queue that
\* held n payloads before it.
Fitting(n) ==
    SubSeq(last.payloads, 1, Min(Len(last.payloads), LiveSubMaxsize - n))

\* C11: a broadcast never blocks its producer and drops an item only for the
\* subscriber whose queue is full. After a tick is broadcast the consumer is
\* streaming, the same subscribers are registered, every registered queue
\* with room has the tick as its newest item and every full one is as it was.
\* After a run of the live task the task waits for the next tick, the same
\* payload subscribers are registered, and every registered payload queue
\* holds what it held before followed by the payloads that fitted, in order.
C11_BroadcastDropsForFullOnly ==
    /\ (Handled /\ last.result = "tick") =>
        /\ ctasks[last.task].st = "streaming"
        /\ subscribers = last.before.subs
        /\ IF 0 \in subscribers
           THEN pqueue = IF last.before.pq < PersistMaxsize
                         THEN Append(SubSeq(pqueue, 1, last.before.pq), last.tick)
                         ELSE SubSeq(pqueue, 1, last.before.pq)
           ELSE Len(pqueue) = last.before.pq
        /\ \A i \in DOMAIN tick_queues :
            Len(tick_queues[i]) =
                IF i \in subscribers /\ last.before.tq[i] < LiveTickMaxsize
                THEN last.before.tq[i] + 1 ELSE last.before.tq[i]
    /\ (last.op = "live_run" /\ last.outcome # "raise") =>
        /\ ltasks[last.task].st = "waiting"
        /\ live_subscribers = last.before.subs
        /\ \A i \in DOMAIN payload_queues :
            payload_queues[i] =
                IF i \in live_subscribers
                THEN last.before.pq[i] \o Fitting(Len(last.before.pq[i]))
                ELSE last.before.pq[i]

\* C11 witness: a run of the live task broadcast a payload that one
\* subscriber, its queue full, did not get and another subscriber got.
C11_Witness ==
    /\ last.op = "live_run" /\ last.payloads # <<>>
    /\ \E i, j \in live_subscribers :
        /\ Len(last.before.pq[i]) = LiveSubMaxsize
        /\ payload_queues[i] = last.before.pq[i]
        /\ Len(payload_queues[j]) > Len(last.before.pq[j])

\* C12: the shutdown cancels the consumer tasks before the final forced
\* flush of the persistence worker. When the worker's stop() has done its
\* forced flush during the shutdown every consumer task has ended, and when
\* the shutdown is over no tick waits in the persistence queue or the batch.
C12_FlushAfterConsumersEnd ==
    /\ (lifespan # "serving" /\ last.op = "persist_stopped") =>
        \A t \in DOMAIN ctasks : Finished(ctasks[t])
    /\ lifespan = "down" => Pending = {}

\* C13: a consumer whose connection ended waits the backoff interval before
\* its next connect attempt. No step takes a consumer task from streaming, or
\* from a connect attempt, straight to a new connect attempt: a task that
\* stops streaming or fails to connect is next backing off or ended.
C13_BackoffBeforeReconnect ==
    [][\A t \in DOMAIN ctasks :
        (ctasks[t].st \in {"streaming", "connecting"} /\ ctasks'[t].st # ctasks[t].st) =>
            ctasks'[t].st \in {"streaming", "backoff", "done", "cancelled"}]_vars

\* C14: reconnection has no retry ceiling. A consumer that backs off after a
\* failure attempts to connect again, unless the service is stopped or the
\* task cancelled meanwhile; and the step in which a connect attempt or a
\* connection fails ends no task: the failing task is backing off and every
\* other task is as it was.
C14_AlwaysReconnects ==
    /\ \A t \in 1..MaxTasks :
        (t \in DOMAIN ctasks /\ ctasks[t].st = "backoff")
            ~> (~running \/ (t \in DOMAIN ctasks /\ (ctasks[t].cancel \/ ctasks[t].st = "connecting")))
    /\ [][\A t \in DOMAIN ctasks :
            (ctasks[t].st \in {"connecting", "streaming"} /\ ctasks'[t].st = "backoff") =>
                /\ \A u \in DOMAIN ctasks \ {t} : ctasks'[u] = ctasks[u]
                /\ wtasks' = wtasks /\ ltasks' = ltasks]_vars
    /\ [][\A t \in DOMAIN ctasks :
            (ctasks[t].st = "backoff" /\ running /\ ~ctasks[t].cancel) =>
                ctasks'[t].st \in {"backoff", "connecting"}]_vars

\* C14 witness: a consumer's backoff is over and it attempts to connect again.
C14_Witness ==
    /\ last.op = "backoff_done"
    /\ running
    /\ ctasks[last.task].st = "connecting"

\* The ingest service is stopped: stop() has returned and start() has not
\* been called since.
Stopped == ~running /\ ~istop.active

\* C15: a stop is terminal for every consumer task. While the service is
\* stopped no consumer task is alive; and a step that leaves it stopped
\* appends no tick to the buffer, puts none on the primary or the
\* persistence queue, and takes no task to connecting or streaming.
C15_StopIsTerminal ==
    /\ [](Stopped => \A t \in DOMAIN ctasks : Finished(ctasks[t]))
    /\ [][(Stopped /\ Stopped') =>
            /\ UNCHANGED <<hist, queue, pqueue>>
            /\ \A t \in DOMAIN ctasks :
                ctasks'[t].st \in {"connecting", "streaming"} => ctasks'[t].st = ctasks[t].st]_vars

\* C16: a consumer whose connection fails reconnects within two backoff
\* intervals and resumes without duplicates. A backing-off task has slept at
\* most two backoff intervals, and when its backoff is over on a running
\* service it is connecting; no step removes or changes an entry of the
\* buffer history, which holds no tick twice; and the tick of a message is in
\* it exactly once, as its newest entry.
C16_ReconnectKeepsHistory ==
    /\ [](\A t \in DOMAIN ctasks : ctasks[t].slept <= 2 * ReconnectDelay)
    /\ []((last.op = "backoff_done" /\ running) =>
            /\ last.slept <= 2 * ReconnectDelay
            /\ ctasks[last.task].st = "connecting")
    /\ [](\A s \in AllSymbols : \A i, j \in DOMAIN hist[s] : hist[s][i] = hist[s][j] => i = j)
    /\ []((Handled /\ last.result = "tick") =>
            /\ Len(hist[last.sym]) = last.before.h + 1
            /\ hist[last.sym][Len(hist[last.sym])] = last.tick)
    /\ [][\A s \in AllSymbols :
            /\ Len(hist'[s]) >= Len(hist[s])
            /\ SubSeq(hist'[s], 1, Len(hist[s])) = hist[s]
            /\ Len(hist'[s]) = Len(hist[s]) => data'[s] = data[s]]_vars

\* C16 witness: a consumer that backed off when its symbol had ticks in the
\* buffer history has reconnected and appended its first tick since.
C16_Witness ==
    /\ Handled /\ last.result = "tick"
    /\ ctasks[last.task].kept >= 1
    /\ ctasks[last.task].kept = last.before.h

\* A consumer task that can still append: not ended and not cancelled.
Owning(t) == ~Finished(ctasks[t]) /\ ~ctasks[t].cancel

\* C17: each symbol's buffer sequence has a single owning consumer task. In
\* every state at most one consumer task that can still append exists for
\* each symbol.
C17_OneConsumerPerSymbol ==
    \A t, u \in DOMAIN ctasks :
        (Owning(t) /\ Owning(u) /\ ctasks[t].sym = ctasks[u].sym) => t = u

\* C18: add_symbol leaves every existing consumer task, its connection state
\* and every buffered tick as they were. On a running service it creates one
\* task, for its symbol, when the symbol is new, and none when it is known;
\* on a stopped service it creates no task and registers the symbol; and
\* start() creates one task for every registered symbol.
C18_AddSymbolStartsOne ==
    /\ [][\A s \in InputSymbols : AddSymbol(s) =>
            /\ SubSeq(ctasks', 1, Len(ctasks)) = ctasks
            /\ \A x \in DOMAIN data : data'[x] = data[x]
            /\ UNCHANGED <<running, hist, queue>>
            /\ symbols' = symbols \cup {lower(s)}
            /\ IF running /\ lower(s) \notin symbols
               THEN /\ Len(ctasks') = Len(ctasks) + 1
                    /\ ctasks'[Len(ctasks')].sym = lower(s)
                    /\ ctasks'[Len(ctasks')].st = "created"
                    /\ taskset' = taskset \cup {Len(ctasks')}
               ELSE UNCHANGED <<ctasks, taskset>>]_vars
    /\ [][(IngestStart /\ ~running) =>
            /\ running'
            /\ SubSeq(ctasks', 1, Len(ctasks)) = ctasks
            /\ \A s \in symbols :
                Cardinality({t \in DOMAIN ctasks' \ DOMAIN ctasks : ctasks'[t].sym = s}) = 1]_vars

\* C18 witness: add_symbol has started the consumer of a new symbol beside
\* a streaming consumer whose symbol has buffered ticks.
C18_Witness ==
    /\ last.op = "add_symbol"
    /\ running
    /\ ctasks # <<>> /\ ctasks[Len(ctasks)].sym = last.sym /\ ctasks[Len(ctasks)].st = "created"
    /\ \E t \in DOMAIN ctasks :
        ctasks[t].sym # last.sym /\ ctasks[t].st = "streaming" /\ data[ctasks[t].sym] # <<>>

\* a is b with some of its entries left out.
RECURSIVE IsSubsequence(_, _)
IsSubsequence(a, b) ==
    IF a = <<>> THEN TRUE
    ELSE IF b = <<>> THEN FALSE
    ELSE IF Head(a) = Head(b) THEN IsSubsequence(Tail(a), Tail(b))
    ELSE IsSubsequence(a, Tail(b))

\* The ticks of symbol s in xs, in the order of xs.
OfSymbol(xs, s) == SelectSeq(xs, LAMBDA x : x.symbol = s)

\* C19: the order of a symbol's ticks is kept into the buffer and the store.
\* For every symbol the buffer holds the newest of the appended ticks in
\* append order, and the symbol's ticks in the store, followed by those
\* waiting in the batch and in the persistence queue, are in append order:
\* the appended ticks with some left out.
C19_OrderPreserved ==
    \A s \in AllSymbols :
        /\ IsSubsequence(snapshot(data, s), hist[s])
        /\ IsSubsequence(OfSymbol(Stored, s), hist[s])
        /\ IsSubsequence(OfSymbol(Stored \o batch \o pqueue, s), hist[s])

\* C19 witness: the store holds ticks of two batches, two of them of one
\* symbol, and a tick of that symbol that was appended is not among them.
C19_Witness ==
    /\ Cardinality({i \in DOMAIN inserts : inserts[i].ok}) >= 2
    /\ \E s \in AllSymbols :
        /\ Len(OfSymbol(Stored, s)) >= 2
        /\ \E i \in DOMAIN hist[s] :
            /\ i < Len(hist[s])
            /\ hist[s][i] \notin Range(Stored)
            /\ hist[s][Len(hist[s])] \in Range(Stored)

\* C20: stop() on a component that is not running does nothing. A stop() of
\* the ingest service, the persistence worker or the live stream called
\* while that component is not running (never started, stopped, or being
\* stopped) returns at once and leaves every variable of the three
\* components as it was: no task is cancelled and insert_ticks is not called.
C20_StopIdempotent ==
    /\ [][(~running /\ IngestStopBegin) =>
            (last' = Skipped("ingest") /\ UNCHANGED <<ingest_vars, persist_vars, live_vars>>)]_vars
    /\ [][\A ok \in BOOLEAN : (~pw_running /\ PersistStopBegin(ok)) =>
            (last' = Skipped("persist") /\ UNCHANGED <<ingest_vars, persist_vars, live_vars>>)]_vars
    /\ [][(~live_running /\ LiveStopBegin) =>
            (last' = Skipped("live") /\ UNCHANGED <<ingest_vars, persist_vars, live_vars>>)]_vars

\* C20 witness: stop() was called on the persistence worker after an earlier
\* stop() had ended its task, with the ingest service and the live stream
\* started and stopped as well.
C20_Witness ==
    /\ last = Skipped("persist")
    /\ pw_task \in DOMAIN wtasks /\ WFinished(pw_task) /\ pstop.st = "idle"
    /\ ~running /\ ctasks # <<>> /\ ~istop.active
    /\ ~live_running /\ ltasks # <<>> /\ lstop.st = "idle"

\* In the claims on the alert manager, a step whose last'.op is "evaluate" is
\* a step of Evaluate, and last'.metrics is the snapshot it was given.
\* Events of rule id in a sequence of events.
EventsOf(evs, id) == SelectSeq(evs, LAMBDA e : e.alert_id = id)

\* C21: an evaluation triggers neither an inactive rule nor a rule whose
\* metric is absent from the snapshot: no returned event names such a rule,
\* the history gains no event of it and its last_triggered stays as it was.
C21_NoTriggerWhenInactiveOrAbsent ==
    [][last'.op = "evaluate" =>
        \A i \in DOMAIN alerts :
            (~alerts[i].active \/ alerts[i].metric \notin DOMAIN last'.metrics) =>
                /\ EventsOf(last'.triggered, alerts[i].id) = <<>>
                /\ Len(EventsOf(alert_history', alerts[i].id))
                       <= Len(EventsOf(alert_history, alerts[i].id))
                /\ alerts'[i] = alerts[i]]_vars

\* An evaluation has just passed over an inactive rule whose comparison holds
\* on the snapshot.
C21_Witness ==
    /\ last.op = "evaluate"
    /\ last.triggered = <<>>
    /\ \E i \in DOMAIN alerts :
        /\ ~alerts[i].active
        /\ triggers_inactive(alerts[i], last.metrics)

RECURSIVE Reverse(_)
Reverse(xs) == IF xs = <<>> THEN <<>> ELSE Append(Reverse(Tail(xs)), Head(xs))

\* The four comparisons as the rule's operator names them.
Holds(v, operator, threshold) ==
    \/ operator = ">" /\ v > threshold
    \/ operator = ">=" /\ (v > threshold \/ v = threshold)
    \/ operator = "<" /\ v < threshold
    \/ operator = "<=" /\ (v < threshold \/ v = threshold)

\* C22: in one evaluation every active rule whose metric is in the snapshot
\* and whose comparison holds yields exactly one event with the metric's
\* value and has last_triggered set to the event's time; every other rule
\* yields none; the returned list holds exactly these events and they stand
\* at the front of the history, the latest first.
C22_TriggersExactlyMatchingRules ==
    [][last'.op = "evaluate" =>
        LET m == last'.metrics
            due == {i \in DOMAIN alerts :
                        /\ alerts[i].active
                        /\ alerts[i].metric \in DOMAIN m
                        /\ Holds(m[alerts[i].metric], alerts[i].operator, alerts[i].threshold)}
            out == last'.triggered
            n == Min(Len(out), HistoryLimit)
        IN  /\ Len(out) = Cardinality(due)
            /\ \A i \in DOMAIN alerts :
                LET evs == EventsOf(out, alerts[i].id)
                IN  IF i \in due
                    THEN /\ Len(evs) = 1
                         /\ evs[1].metric_value = m[alerts[i].metric]
                         /\ alerts'[i].last_triggered = <<evs[1].triggered_at>>
                    ELSE evs = <<>>
            /\ Len(alert_history') >= n
            /\ SubSeq(alert_history', 1, n) = SubSeq(Reverse(out), 1, n)]_vars

\* An evaluation has just triggered a rule and its event heads the history.
C22_Witness ==
    /\ last.op = "evaluate"
    /\ last.triggered # <<>>
    /\ alert_history # <<>>
    /\ Head(alert_history) = last.triggered[Len(last.triggered)]
    /\ \E i \in DOMAIN alerts : alerts[i].last_triggered = <<Head(alert_history).triggered_at>>

\* C23: the history never holds more than HistoryLimit events; an evaluation
\* leaves it as its new events, latest first, followed by the events it held,
\* cut after HistoryLimit events, so the oldest are the ones that leave; no
\* other operation touches it.
C23_HistoryBoundedNewestFirst ==
    [][/\ Len(alert_history') <= HistoryLimit
       /\ IF last'.op = "evaluate"
          THEN LET all == Reverse(last'.triggered) \o alert_history
               IN  alert_history' = SubSeq(all, 1, Min(Len(all), HistoryLimit))
          ELSE alert_history' = alert_history]_vars

\* An evaluation has just recorded an event in a full history, and the oldest
\* event left.
C23_Witness ==
    /\ last.op = "evaluate"
    /\ last.triggered # <<>>
    /\ last.dropped > 0
    /\ Len(alert_history) = HistoryLimit
    /\ Head(alert_history) = last.triggered[Len(last.triggered)]

\* C24: a delete or a toggle (with its active parameter) that names an id no
\* rule has is answered with status 404 and leaves the rules and the history
\* as they were.
C24_UnknownIdIsNotFound ==
    [][(/\ last'.op \in {"delete_alert", "toggle_alert"}
        /\ last'.status # 400
        /\ ~Known(alerts, last'.id)) =>
            /\ last'.status = 404
            /\ alerts' = alerts
            /\ alert_history' = alert_history]_vars

\* The rules without the fields an operation may write.
Fixed(rs, fields) ==
    [i \in DOMAIN rs |-> [f \in (DOMAIN rs[i]) \ fields |-> rs[i][f]]]

\* C25: an evaluation keeps the rules, their order and every field but
\* last_triggered, and writes last_triggered only of the rules it triggers;
\* a toggle keeps everything but the active flag of the rule it names; a
\* create only adds a rule; a rule leaves only in a delete that names it.
C25_RulesMutatedOnlyInActiveAndLastTriggered ==
    [][/\ last'.op = "evaluate" =>
            /\ Fixed(alerts', {"last_triggered"}) = Fixed(alerts, {"last_triggered"})
            /\ \A i \in DOMAIN alerts :
                    EventsOf(last'.triggered, alerts[i].id) = <<>> => alerts'[i] = alerts[i]
       /\ last'.op = "toggle_alert" =>
            /\ Fixed(alerts', {"active"}) = Fixed(alerts, {"active"})
            /\ \A i \in DOMAIN alerts : alerts[i].id # last'.id => alerts'[i] = alerts[i]
       /\ last'.op = "create_alert" =>
            /\ Len(alerts') = Len(alerts) + 1
            /\ SubSeq(alerts', 1, Len(alerts)) = alerts
       /\ last'.op = "delete_alert" => alerts' = Without(alerts, last'.id)
       /\ last'.op \notin {"evaluate", "toggle_alert", "create_alert", "delete_alert"} =>
            alerts' = alerts]_vars

\* A toggle has just switched off a rule that had triggered before: its
\* last_triggered is still there.
C25_Witness ==
    /\ last.op = "toggle_alert"
    /\ last.status = 200
    /\ \E i \in DOMAIN alerts :
        /\ alerts[i].id = last.id
        /\ ~alerts[i].active
        /\ alerts[i].last_triggered # <<>>

\* C26: the queue of a subscriber that joins holds the latest payload alone
\* when a payload has been computed and is empty otherwise, and the subscriber
\* is registered; from then on a queue changes only by losing its first item
\* to its reader or by gaining payloads behind those it holds.
C26_LatestPayloadFirst ==
    [][/\ last'.op = "subscribe" =>
            /\ last'.queue \in live_subscribers'
            /\ IF latest_payload = <<>>
               THEN payload_queues'[last'.queue] = <<>>
               ELSE payload_queues'[last'.queue] = <<latest_payload[Len(latest_payload)]>>
       /\ \A i \in DOMAIN payload_queues :
            LET old == payload_queues[i]
                new == payload_queues'[i]
            IN  \/ new = old
                \/ old # <<>> /\ new = Tail(old)
                \/ Len(new) > Len(old) /\ SubSeq(new, 1, Len(old)) = old]_vars

\* A subscriber has just joined after a payload was computed.
C26_Witness ==
    /\ last.op = "subscribe"
    /\ latest_payload # <<>>
    /\ payload_queues[last.queue] = latest_payload

\* C27: a run of the live task broadcasts one payload for every tick it took
\* off its queue, in the order it took them, each with its tick's timestamp,
\* symbol and price; every subscriber with room received them in that order,
\* and the latest payload is the last of them.
C27_OnePayloadPerTick ==
    last.op = "live_run" =>
        /\ last.emitted = last.taken
        /\ Len(last.payloads) = last.taken
        /\ \A i \in 1..last.taken :
            /\ i \in DOMAIN last.payloads
            /\ last.payloads[i].timestamp = last.waiting[i].ts
            /\ last.payloads[i].symbol = last.waiting[i].symbol
            /\ last.payloads[i].price = last.waiting[i].price
        /\ last.taken > 0 => latest_payload = <<last.payloads[Len(last.payloads)]>>

\* The rule a create with payload p makes.
RuleOf(p) ==
    [id |-> 1, metric |-> p.metric, operator |-> p.operator, threshold |-> p.threshold,
     active |-> TRUE, last_triggered |-> <<>>]

\* C28: the metric snapshot of a call that returns has its keys among spread,
\* zscore, correlation and beta; a key is in it exactly when the analytics
\* carry a value for it, and with that value; on an empty series it is
\* empty, and an evaluation on it triggers no rule.
C28_SnapshotHoldsComputableOnly ==
    (last.op = "pair_metrics" /\ last.outcome # "raise") =>
        LET an == last.analytics
            value == [k \in {"spread", "zscore", "correlation", "beta"} |->
                        IF k = "spread" THEN an.latest_spread
                        ELSE IF k = "zscore" THEN an.latest_zscore
                        ELSE IF k = "correlation" THEN an.rolling_correlation
                        ELSE <<an.beta>>]
        IN  /\ DOMAIN last.metrics \subseteq DOMAIN value
            /\ \A k \in DOMAIN last.metrics : <<last.metrics[k]>> = value[k]
            /\ (last.ticks_a # <<>> /\ last.ticks_b # <<>>) =>
                    \A k \in DOMAIN value : value[k] # <<>> => k \in DOMAIN last.metrics
            /\ (last.ticks_a = <<>> \/ last.ticks_b = <<>>) =>
                    /\ DOMAIN last.metrics = {}
                    /\ \A p \in AlertCreate :
                        evaluate(<<RuleOf(p)>>, <<>>, last.metrics).triggered = <<>>

\* A call on two long enough series has returned analytics without a z-score:
\* the snapshot has the spread and the beta and no z-score.
C28_Witness ==
    /\ last.op = "pair_metrics"
    /\ last.outcome = "ok"
    /\ last.analytics.latest_zscore = <<>>
    /\ DOMAIN last.metrics = {"spread", "beta"}

\* C29: snapshot(symbol) hands out the symbol's ticks in order, the empty
\* sequence for an unknown symbol, and changes nothing: no symbol gains
\* storage. The list it handed out is changed by no later step but its
\* holder's, and the holder's change leaves the buffer as it was.
\* ensure(symbol) adds empty storage for a symbol that has none, leaves
\* every stored sequence as it was, and a second ensure changes nothing.
C29_SnapshotIsIndependentCopy ==
    [][/\ last'.op = "snapshot" =>
            /\ data' = data
            /\ HeldList' = IF last'.symbol \in DOMAIN data THEN data[last'.symbol] ELSE <<>>
            /\ UNCHANGED <<ingest_vars, persist_vars, live_vars>>
       /\ last'.op = "clear_held" => data' = data
       /\ last'.op \notin {"snapshot", "clear_held"} => HeldList' = HeldList
       /\ last'.op = "ensure_symbol" =>
            /\ DOMAIN data' = DOMAIN data \cup {last'.symbol}
            /\ \A s \in DOMAIN data : data'[s] = data[s]
            /\ last'.symbol \notin DOMAIN data => data'[last'.symbol] = <<>>
            /\ ensure_symbol(data', last'.symbol) = data']_vars

\* A tick has just been appended for the symbol of a list that was handed out
\* before, when the buffer held ticks: the list is not the buffer's content.
C29_Witness ==
    /\ last.op = "message" /\ last.result = "tick"
    /\ held.ref # "none"
    /\ held.symbol = last.sym
    /\ HeldList # <<>>
    /\ HeldList # snapshot(data, held.symbol)

Prices(ticks) == [i \in DOMAIN ticks |-> ticks[i].price]

\* The five ticks have been ingested, none was dropped for the persistence
\* queue, and the worker has taken them all and waits for the next.
PipelineDrained ==
    /\ sent = 5 /\ Len(hist["btcusdt"]) = 5
    /\ drops = 0
    /\ pqueue = <<>>
    /\ \E w \in DOMAIN wtasks : Waiting(w)

\* C30: after five btcusdt ticks priced 100 to 104 through a buffer of
\* three and a worker with batches of two, the buffer holds the ticks priced
\* 102, 103, 104 in that order, two batches have been flushed, priced
\* 100, 101 and 102, 103, and the tick priced 104 is alone in the batch.
C30_FiveTicksEndToEnd ==
    PipelineDrained =>
        /\ Prices(snapshot(data, "btcusdt")) = <<102, 103, 104>>
        /\ [i \in DOMAIN inserts |-> Prices(inserts[i].ticks)] = <<<<100, 101>>, <<102, 103>>>>
        /\ \A i \in DOMAIN inserts : inserts[i].ok /\ inserts[i].cause = "size"
        /\ Prices(batch) = <<104>>

\* The five ticks have gone through the pipeline.
C30_Witness ==
    /\ PipelineDrained
    /\ Prices(hist["btcusdt"]) = <<100, 101, 102, 103, 104>>
    /\ Len(inserts) = 2

\* C31: on two series with too few aligned rows or a non-positive price the
\* hedge ratio is reported as not computable, and the fault reaches no
\* caller: a run of the live task on such buffers has that outcome, and no
\* live task has ended with an exception.
C31_NotComputableReachesNoCaller ==
    /\ (last.op = "live_run" /\ last.taken > 0
            /\ snapshot(data, SymA) # <<>> /\ snapshot(data, SymB) # <<>>
            /\ hedge_raises(snapshot(data, SymA), snapshot(data, SymB))) =>
                last.outcome = "raise"
    /\ \A l \in DOMAIN ltasks : ltasks[l].st # "failed"

C33_NothingRunsAfterShutdown ==
    lifespan = "down" => (~running /\ ~pw_running /\ ~live_running)

\* ------------------------------------------------------------------ the worker with a store that commits
\* The timeout of a wait_for whose queue stayed empty for flush_interval; a
\* queue that holds a tick completes the get instead.
WorkerIdle(w) == pqueue = <<>> /\ TimeoutHandler(w, TRUE)

\* One worker task's steps: the event loop runs a task that is ready.
WorkerSteps(w) ==
    \/ WorkerBegin(w, TRUE)
    \/ WorkerGet(w, TRUE)
    \/ WorkerIdle(w)
    \/ \E take \in BOOLEAN : WorkerCancelled(w, take, TRUE)

\* The persistence worker behind a streaming ingest service, every
\* insert_ticks committing.
NextDurable ==
    \/ Producer(MaxPersistMsgs)
    \/ PersistStart
    \/ PersistStopBegin(TRUE)
    \/ PersistStopEnd(TRUE)
    \/ \E w \in 1..MaxWorkers : WorkerSteps(w)

\* A task that is ready runs, and a wait_for ends with a tick or with its
\* timeout; a stop() whose awaited task has ended is resumed.
SpecDurable ==
    /\ InitOne
    /\ [][NextDurable]_vars
    /\ \A w \in 1..MaxWorkers : WF_vars(WorkerSteps(w))
    /\ WF_vars(PersistStopEnd(TRUE))

\* The n-th tick of the feed.
Queued(n) == \E i \in DOMAIN pqueue : pqueue[i].ts = 1000 * n
Written(n) == \E i \in DOMAIN Stored : Stored[i].ts = 1000 * n

\* C34: with a store that does not fail, every tick that is in the
\* persistence queue while the worker is running is eventually written to
\* the store.
C34_AcceptedTickEventuallyWritten ==
    \A n \in 1..MaxPersistMsgs : (Queued(n) /\ pw_running) ~> Written(n)

\* ------------------------------------------------------------------ the worker stopped and started again
PersistRestart == persist_start_upto(MaxRestartWorkers) /\ UNCHANGED app_vars

\* The persistence worker behind a streaming ingest service, stopped and
\* started again while the task of the earlier start may still be alive.
NextRestart ==
    \/ Producer(MaxRestartMsgs)
    \/ PersistRestart
    \/ \E ok \in BOOLEAN : PersistStopBegin(ok)
    \/ \E ok \in BOOLEAN : PersistStopEnd(ok)
    \/ \E w \in 1..MaxRestartWorkers, ok \in BOOLEAN :
        \/ WorkerBegin(w, ok)
        \/ WorkerGet(w, ok)
        \/ WorkerTimeout(w, ok)
        \/ \E take \in BOOLEAN : WorkerCancelled(w, take, ok)

SpecRestart == InitOne /\ [][NextRestart]_vars

\* Every tick of every insert_ticks call, committed or not, in call order.
HandedSeq == Concat([i \in DOMAIN inserts |-> inserts[i].ticks])

NoDuplicates(s) == \A i, j \in DOMAIN s : i # j => s[i] # s[j]

\* C35: no tick is handed to the store more than once: a tick of one
\* insert_ticks call is in no other call and not twice in its own, and it is
\* no longer in the batch nor in the queue, whichever of the size, idle and
\* forced flushes wrote it.
C35_NoTickWrittenTwice == NoDuplicates(HandedSeq \o batch \o pqueue)

\* C35 witness: the worker was started again while its stop() awaited the
\* first task, and both forced flushes wrote ticks: the cleanup of a worker
\* task and the one in stop().
C35_Witness ==
    /\ Len(wtasks) = 2
    /\ \E i, j \in DOMAIN inserts : inserts[i].cause = "final" /\ inserts[j].cause = "stop"

\* The ticks the last run of the live task took from its queue.
Taken == SubSeq(last.waiting, 1, Min(last.taken, Len(last.waiting)))

\* The number of ticks the consumer of t's symbol appended after t.
AppendedAfter(t) ==
    LET h == hist[t.symbol]
    IN  Len(h) - (CHOOSE i \in DOMAIN h : h[i] = t)

\* C36: every tick that waits in a queue of the live stream, and every tick
\* a run of the live task took from its queue, has been appended to the
\* buffer of its symbol; the snapshot of that symbol the run reads contains
\* the tick unless tick_buffer_size or more later appends evicted it.
C36_AppendedBeforeBroadcast ==
    /\ \A q \in DOMAIN tick_queues : \A i \in DOMAIN tick_queues[q] :
            tick_queues[q][i] \in Range(hist[tick_queues[q][i].symbol])
    /\ last.op = "live_run" =>
        \A i \in DOMAIN Taken :
            LET t == Taken[i]
            IN  /\ t \in Range(hist[t.symbol])
                /\ AppendedAfter(t) < settings.tick_buffer_size
                        => t \in Range(snapshot(data, t.symbol))
                /\ AppendedAfter(t) >= settings.tick_buffer_size
                        => t \notin Range(snapshot(data, t.symbol))

\* C36 witness: a run of the live task took a tick that the snapshot of its
\* symbol still holds.
C36_Witness ==
    /\ last.op = "live_run"
    /\ \E i \in DOMAIN Taken : Taken[i] \in Range(snapshot(data, Taken[i].symbol))

\* ------------------------------------------------------------------ the live stream stopped and started again
LiveRestart == live_start_upto(MaxRestartLive) /\ UNCHANGED app_vars

\* The live stream behind a streaming ingest service, stopped and started
\* again while the task of the earlier start may still be alive.
NextLiveRestart ==
    \/ Producer(MaxLiveRestartMsgs)
    \/ LiveRestart
    \/ LiveStopBegin
    \/ LiveStopEnd
    \/ \E l \in 1..MaxRestartLive :
        \/ LiveCancelled(l)
        \/ \E an \in Computed : LiveBegin(l, an)
        \/ \E an \in Computed : LiveRun(l, an)

SpecLiveRestart == Init /\ [][NextLiveRestart]_vars

\* The tick queues of the live stream among the subscribers of the ingest
\* service, and its tasks that have not ended.
Registered == subscribers \cap DOMAIN tick_queues
AliveLive == {l \in DOMAIN ltasks : ~LFinished(ltasks[l])}

\* C37 as claimed: at most one tick queue of the live stream is registered,
\* exactly one while it is running and none once stop() has returned, and at
\* most one live task is alive.
C37_Original ==
    /\ Cardinality(Registered) <= 1
    /\ live_running => Cardinality(Registered) = 1
    /\ (last.op = "live_stopped" /\ ~last.raised) => Registered = {}
    /\ Cardinality(AliveLive) <= 1

\* C37 amended: at most one tick queue of the live stream is registered: the
\* current one while it is running, none while it is not. At most one live
\* task that stop() has not cancelled is alive, the current one; and once a
\* stop() has returned the task it cancelled has ended.
C37_OneQueueOneUncancelledTask ==
    /\ Cardinality(Registered) <= 1
    /\ live_running => Registered = {live_tick_queue}
    /\ ~live_running => Registered = {}
    /\ \A l \in AliveLive : ltasks[l].cancel \/ l = live_task
    /\ last.op = "live_stopped" => (last.task = 0 \/ LFinished(ltasks[last.task]))

\* C37 witness: start() ran while stop() awaited the task it had cancelled:
\* the stream is running with its second queue and its second task, and the
\* first task is still alive.
C37_Witness ==
    /\ lstop.st = "awaiting"
    /\ live_running
    /\ Cardinality(AliveLive) = 2
    /\ Registered = {2}


=============================================================================
